---- MODULE Spec2Model ----
(***************************************************************************)
(* PearlCard fare system: the rule store (SQLite table fare_rules), the    *)
(* multi-level fare cache (lru_cache memoizer, in-memory dict, Redis), the *)
(* Settings class caches, the fare calculator and the API handlers.        *)
(*                                                                         *)
(* Fares are Python floats; they are modelled as integers counted in       *)
(* thousandths of the currency unit (40.0 is 40000), so that rounding to   *)
(* two decimals is an operation that changes values.                       *)
(* Python's None is the empty sequence <<>>, a present value v is <<v>>.   *)
(* A Python dict is a function whose DOMAIN is the set of its keys.        *)
(***************************************************************************)
EXTENDS Integers, Sequences, FiniteSets, TLC

----------------------------------------------------------------------------
(* Bounds of the model *)

MaxZone == 4
MaxAdmin == 1
TickStep == 3600
MaxTime == 3600
MaxStoreOps == 2

(* Program constants *)

TTL == 3600
MAX_JOURNEYS_PER_DAY == 20
MaxItems == 20
MinItems == 1

Zones == 1..MaxZone
Inst == {1, 2}
Serving == {1}

None == <<>>
Some(v) == <<v>>

----------------------------------------------------------------------------
(* Rule store: the rows of fare_rules in rowid order *)

Row(a, b, f) == [from_zone |-> a, to_zone |-> b, fare |-> f]

default_rules ==
    << Row(1, 1, 40000), Row(1, 2, 55000), Row(1, 3, 65000),
       Row(2, 2, 35000), Row(2, 3, 45000), Row(3, 3, 30000) >>

(* session.query(FareRuleDB).filter_by(from_zone=a, to_zone=b).first():
   the index of the row, 0 when there is none *)
FindRow(rows, a, b) ==
    LET hits == {k \in 1..Len(rows) : rows[k].from_zone = a /\ rows[k].to_zone = b}
    IN  IF hits = {} THEN 0 ELSE CHOOSE k \in hits : \A j \in hits : k <= j

DbGetFare(rows, a, b) ==
    LET exact == FindRow(rows, a, b)
        rev   == FindRow(rows, b, a)
    IN  IF exact # 0 THEN Some(rows[exact].fare)
        ELSE IF rev # 0 THEN Some(rows[rev].fare)
        ELSE None

DbGetAllFareRules(rows) ==
    [p \in {<<rows[k].from_zone, rows[k].to_zone>> : k \in 1..Len(rows)} |->
        rows[FindRow(rows, p[1], p[2])].fare]

ZoneSet(rows) ==
    {rows[k].from_zone : k \in 1..Len(rows)} \cup {rows[k].to_zone : k \in 1..Len(rows)}

RECURSIVE SortedList(_)
SortedList(S) ==
    IF S = {} THEN <<>>
    ELSE LET m == CHOOSE x \in S : \A y \in S : x <= y
         IN  <<m>> \o SortedList(S \ {m})

DbGetAvailableZones(rows) == SortedList(ZoneSet(rows))

InList(x, l) == \E k \in 1..Len(l) : l[k] = x

DbIsValidZone(rows, z) == InList(z, DbGetAvailableZones(rows))

(* a row added for every call, the row already there left as it is *)
DbUpdateFareRule_InsertOnly(rows, a, b, f) == Append(rows, Row(a, b, f))

DbUpdateFareRule(rows, a, b, f) ==
    LET k == FindRow(rows, a, b)
    IN  IF k # 0 THEN [rows EXCEPT ![k].fare = f]
        ELSE Append(rows, Row(a, b, f))

(* fares is the dict as the list of its items, in the dict's order *)
RECURSIVE DbAddZone(_, _, _)
DbAddZone(rows, z, fares) ==
    IF fares = <<>> THEN rows
    ELSE DbAddZone(Append(rows, Row(z, Head(fares)[1], Head(fares)[2])), z, Tail(fares))

----------------------------------------------------------------------------
(* FareRulesCache.  A cache object is the record
     [inited, client, mem, ts, lru]
   inited: the singleton exists; client: redis_client is not None;
   mem, ts: _memory_cache and _cache_timestamps; lru: the results memoized by
   the lru_cache wrapper of get_fare_cached, by argument pair.
   A world w = [c, redis, log] is threaded through a handler: the cache of
   the running process, the Redis store and the fare lookups made so far. *)

LruMaxSize == 1000

Put(d, k, v) == (k :> v) @@ d
Drop(d, k) == [x \in (DOMAIN d) \ {k} |-> d[x]]
EmptyDict == <<>>

NoCache == [inited |-> FALSE, client |-> FALSE, mem |-> EmptyDict,
            ts |-> EmptyDict, lru |-> EmptyDict]

Min2(a, b) == IF a <= b THEN a ELSE b
Max2(a, b) == IF a <= b THEN b ELSE a

(* f"fare:{z1}:{z2}" with z1, z2 = sorted([from_zone, to_zone]) *)
MakeKey(a, b) == <<"fare", Min2(a, b), Max2(a, b)>>

IsMemoryCacheValid(c, key, now_) ==
    IF key \notin DOMAIN c.ts THEN FALSE
    ELSE (now_ - c.ts[key]) < TTL

(* str(fare) as stored by setex, float(cached_value) as read back *)
StrOf(f) == <<"str", f>>
FloatOf(s) == s[2]

(* Redis: key -> [val, exp]; GET answers nil for a key past its expiry *)
RedisGet(redis_, key, now_) ==
    IF key \in DOMAIN redis_ /\ now_ < redis_[key].exp
    THEN Some(redis_[key].val) ELSE None

RedisSetex(redis_, key, ttl_, val, now_) ==
    Put(redis_, key, [val |-> val, exp |-> now_ + ttl_])

(* a Redis hit returned without the update of the in-memory dict *)
GetFareCachedBody_NoBackfill(w, a, b, now_, up) ==
    LET key == MakeKey(a, b)
        cached_value == IF w.c.client /\ up THEN RedisGet(w.redis, key, now_) ELSE None
        reads == IF w.c.client THEN <<"memory", "redis">> ELSE <<"memory">>
    IN  IF key \in DOMAIN w.c.mem /\ IsMemoryCacheValid(w.c, key, now_)
        THEN [w |-> w, ret |-> Some(w.c.mem[key]), src |-> "memory",
              reads |-> <<"memory">>]
        ELSE IF cached_value # None
        THEN [w |-> w, ret |-> Some(FloatOf(cached_value[1])), src |-> "redis",
              reads |-> reads]
        ELSE [w |-> w, ret |-> None, src |-> "miss", reads |-> reads]

(* the body of get_fare_cached, without the memoizer.  reads lists the
   levels the call consulted, in order: the dict lookup comes first, and the
   Redis GET is issued (and may raise) whenever redis_client is set *)
GetFareCachedBody(w, a, b, now_, up) ==
    LET key == MakeKey(a, b)
        cached_value == IF w.c.client /\ up THEN RedisGet(w.redis, key, now_) ELSE None
        reads == IF w.c.client THEN <<"memory", "redis">> ELSE <<"memory">>
    IN  IF key \in DOMAIN w.c.mem /\ IsMemoryCacheValid(w.c, key, now_)
        THEN [w |-> w, ret |-> Some(w.c.mem[key]), src |-> "memory",
              reads |-> <<"memory">>]
        ELSE IF cached_value # None
        THEN [w |-> [w EXCEPT !.c.mem = Put(@, key, FloatOf(cached_value[1])),
                              !.c.ts = Put(@, key, now_)],
              ret |-> Some(FloatOf(cached_value[1])), src |-> "redis",
              reads |-> reads]
        ELSE [w |-> w, ret |-> None, src |-> "miss", reads |-> reads]

(* lru_cache stores the result r of the call under the argument pair *)
Memoized(r, a, b) ==
    [w |-> [r.w EXCEPT !.c.lru = Put(@, <<a, b>>, r.ret)],
     ret |-> r.ret, src |-> r.src, reads |-> r.reads]

(* get_fare_cached under @lru_cache(maxsize=1000): a memoized argument pair
   is answered without running the body.  The model holds fewer than
   LruMaxSize argument pairs, so no memoized result is ever evicted. *)
GetFareCached(w, a, b, now_, up) ==
    IF <<a, b>> \in DOMAIN w.c.lru
    THEN [w |-> w, ret |-> w.c.lru[<<a, b>>], src |-> "memo", reads |-> <<>>]
    ELSE Memoized(GetFareCachedBody(w, a, b, now_, up), a, b)

(* the dict updated only once the Redis write has succeeded *)
SetFareCache_RedisFirst(w, a, b, fare, now_, up) ==
    LET key == MakeKey(a, b)
        w1 == [w EXCEPT !.c.mem = Put(@, key, fare), !.c.ts = Put(@, key, now_)]
    IN  IF w.c.client /\ up
        THEN [w1 EXCEPT !.redis = RedisSetex(@, key, TTL, StrOf(fare), now_)]
        ELSE IF w.c.client THEN w ELSE w1

SetFareCache(w, a, b, fare, now_, up) ==
    LET key == MakeKey(a, b)
        w1 == [w EXCEPT !.c.mem = Put(@, key, fare), !.c.ts = Put(@, key, now_)]
    IN  IF w.c.client /\ up
        THEN [w1 EXCEPT !.redis = RedisSetex(@, key, TTL, StrOf(fare), now_)]
        ELSE w1

InvalidateCache(w, from_zone, to_zone, up) ==
    IF from_zone # None /\ from_zone # Some(0) /\ to_zone # None /\ to_zone # Some(0)
    THEN LET key == MakeKey(from_zone[1], to_zone[1])
             w1 == [w EXCEPT !.c.mem = Drop(@, key), !.c.ts = Drop(@, key),
                             !.c.lru = EmptyDict]
         IN  IF w.c.client /\ up THEN [w1 EXCEPT !.redis = Drop(@, key)] ELSE w1
    ELSE LET w1 == [w EXCEPT !.c.mem = EmptyDict, !.c.ts = EmptyDict,
                             !.c.lru = EmptyDict]
         IN  IF w.c.client /\ up THEN [w1 EXCEPT !.redis = EmptyDict] ELSE w1

(* bulk_load_fares: items are the rule table's entries in dict order; the
   pipeline queues one SETEX per entry and execute() applies them, or fails
   as a whole when Redis is unreachable *)
RECURSIVE BulkLoadMemory(_, _, _)
BulkLoadMemory(c, items, now_) ==
    IF items = <<>> THEN c
    ELSE LET key == MakeKey(Head(items).from_zone, Head(items).to_zone)
         IN  BulkLoadMemory([c EXCEPT !.mem = Put(@, key, Head(items).fare),
                                      !.ts = Put(@, key, now_)],
                            Tail(items), now_)

RECURSIVE PipelineExecute(_, _, _)
PipelineExecute(redis_, items, now_) ==
    IF items = <<>> THEN redis_
    ELSE PipelineExecute(
            RedisSetex(redis_, MakeKey(Head(items).from_zone, Head(items).to_zone),
                       TTL, StrOf(Head(items).fare), now_),
            Tail(items), now_)

BulkLoadFares(w, items, now_, up) ==
    LET w1 == [w EXCEPT !.c = BulkLoadMemory(@, items, now_)]
    IN  IF w.c.client /\ up
        THEN [w1 EXCEPT !.redis = PipelineExecute(@, items, now_)]
        ELSE w1

(* the singleton constructed without the warm-up *)
GetFareCache_NoWarmUp(w, rows, now_, up) ==
    IF w.c.inited THEN w
    ELSE [w EXCEPT !.c = [NoCache EXCEPT !.inited = TRUE, !.client = up]]

(* get_fare_cache: the first call constructs the singleton (redis_client is
   set when the ping succeeds) and warms it up from the rule table *)
GetFareCache(w, rows, now_, up) ==
    IF w.c.inited THEN w
    ELSE BulkLoadFares([w EXCEPT !.c = [NoCache EXCEPT !.inited = TRUE, !.client = up]],
                       rows, now_, up)

(* one lookup as recorded in the log of a call *)
LogEntry(a, b, ret, src, reads) ==
    [a |-> a, b |-> b, ret |-> ret, src |-> src, reads |-> reads]

(* a missing rule answered by the code -1 in place of the zero fare *)
CacheMissFallback_NoSentinel(r, a, b, fare, now_, up) ==
    IF r.ret # None
    THEN [w |-> [r.w EXCEPT !.log = Append(@, LogEntry(a, b, r.ret[1], r.src, r.reads))],
          ret |-> r.ret[1]]
    ELSE IF fare # None
    THEN [w |-> [SetFareCache(r.w, a, b, fare[1], now_, up)
                    EXCEPT !.log = Append(@, LogEntry(a, b, fare[1], "db",
                                                      Append(r.reads, "db")))],
          ret |-> fare[1]]
    ELSE [w |-> [r.w EXCEPT !.log = Append(@, LogEntry(a, b, -1, "none",
                                                       Append(r.reads, "db")))],
          ret |-> -1]

(* get_fare_with_cache from the result r of cache.get_fare_cached on: a hit
   is returned; on a miss fare, the answer of db_manager.get_fare, is stored
   by set_fare_cache when it is not None, and "fare or 0.0" is returned *)
CacheMissFallback(r, a, b, fare, now_, up) ==
    IF r.ret # None
    THEN [w |-> [r.w EXCEPT !.log = Append(@, LogEntry(a, b, r.ret[1], r.src, r.reads))],
          ret |-> r.ret[1]]
    ELSE IF fare # None
    THEN [w |-> [SetFareCache(r.w, a, b, fare[1], now_, up)
                    EXCEPT !.log = Append(@, LogEntry(a, b, fare[1], "db",
                                                      Append(r.reads, "db")))],
          ret |-> fare[1]]
    ELSE [w |-> [r.w EXCEPT !.log = Append(@, LogEntry(a, b, 0, "none",
                                                       Append(r.reads, "db")))],
          ret |-> 0]

(* get_fare_with_cache, which Settings.get_fare returns *)
GetFareWithCache(w, a, b, rows, now_, up) ==
    CacheMissFallback(
        GetFareCached(GetFareCache(w, rows, now_, up), a, b, now_, up),
        a, b, DbGetFare(rows, a, b), now_, up)

----------------------------------------------------------------------------
(* Settings: the class attributes _fare_rules_cache and _zones_cache of one
   process, s = [frc, zc] *)

NoSettings == [frc |-> None, zc |-> None]

SettingsGetFareRules(s, rows) ==
    IF s.frc = None THEN [s EXCEPT !.frc = Some(DbGetAllFareRules(rows))] ELSE s

SettingsGetAvailableZones(s, rows) ==
    IF s.zc = None THEN [s EXCEPT !.zc = Some(DbGetAvailableZones(rows))] ELSE s

(* the reload that leaves _zones_cache as it is *)
ReloadFareRules_KeepZones(s, rows) ==
    SettingsGetAvailableZones(
        SettingsGetFareRules([s EXCEPT !.frc = None], rows), rows)

ReloadFareRules(s, rows) ==
    SettingsGetAvailableZones(
        SettingsGetFareRules([s EXCEPT !.frc = None, !.zc = None], rows), rows)

SettingsIsValidZone(rows, z) == DbIsValidZone(rows, z)

----------------------------------------------------------------------------
(* ZonesCache.  An object is the record [zones, ts, hash] for _zones,
   _zones_timestamp and _rules_hash.  A dict given to set_zones is the list
   of its items <<key, value>> in the dict's order. *)

ZonesTTL == 3600

NoZonesCache == [zones |-> None, ts |-> 0, hash |-> None]

(* an entry whose age has reached the ttl still counted as valid *)
ZonesIsValid_Inclusive(z, now_) ==
    IF z.zones = None THEN FALSE
    ELSE (now_ - z.ts) <= ZonesTTL

ZonesIsValid(z, now_) ==
    IF z.zones = None THEN FALSE
    ELSE (now_ - z.ts) < ZonesTTL

GetZones(z, now_) == IF ZonesIsValid(z, now_) THEN z.zones ELSE None

(* the order of Python tuples ((a, b), fare): by a, then b, then fare *)
ItemLeq(x, y) ==
    \/ x[1][1] < y[1][1]
    \/ x[1][1] = y[1][1] /\ x[1][2] < y[1][2]
    \/ x[1][1] = y[1][1] /\ x[1][2] = y[1][2] /\ x[2] <= y[2]

RECURSIVE InsertItem(_, _)
InsertItem(x, l) ==
    IF l = <<>> THEN <<x>>
    ELSE IF ItemLeq(x, Head(l)) THEN <<x>> \o l
    ELSE <<Head(l)>> \o InsertItem(x, Tail(l))

(* sorted(rules_dict.items()) *)
RECURSIVE SortedItems(_)
SortedItems(items) ==
    IF items = <<>> THEN <<>>
    ELSE InsertItem(Head(items), SortedItems(Tail(items)))

(* hashlib.md5(json.dumps(sorted(rules_dict.items())).encode()).hexdigest();
   the digest is taken to be free of collisions *)
RulesHash(items) == <<"md5", <<"json", SortedItems(items)>>>>

SetZones(z, zones, items, now_) ==
    [zones |-> Some(zones), ts |-> now_, hash |-> Some(RulesHash(items))]

ZonesInvalidate(z) == [zones |-> None, ts |-> 0, hash |-> None]

(* the items of the dict db_manager.get_all_fare_rules() builds, in row order *)
DbAllFareRulesItems(rows) ==
    [k \in 1..Len(rows) |-> <<<<rows[k].from_zone, rows[k].to_zone>>, rows[k].fare>>]

----------------------------------------------------------------------------
(* Models and the fare calculator *)

Journey(a, b) == [from_zone |-> a, to_zone |-> b]

(* the validator applied to from_zone only *)
JourneyValid_FromOnly(j, rows) ==
    /\ j.from_zone >= 1 /\ j.to_zone >= 1
    /\ SettingsIsValidZone(rows, j.from_zone)

(* Journey: Field(ge=1) on both zones and the validate_zone validator *)
JourneyValid(j, rows) ==
    /\ j.from_zone >= 1 /\ j.to_zone >= 1
    /\ SettingsIsValidZone(rows, j.from_zone)
    /\ SettingsIsValidZone(rows, j.to_zone)

(* the limit off by one: a batch of MaxItems journeys is refused *)
JourneyRequestValid_OffByOne(journeys, rows) ==
    /\ \A k \in 1..Len(journeys) : JourneyValid(journeys[k], rows)
    /\ Len(journeys) >= MinItems
    /\ Len(journeys) < MaxItems

(* JourneyRequest: every journey valid, min_items, max_items and the
   validate_journey_count validator *)
JourneyRequestValid(journeys, rows) ==
    /\ \A k \in 1..Len(journeys) : JourneyValid(journeys[k], rows)
    /\ Len(journeys) >= MinItems
    /\ Len(journeys) <= MaxItems
    /\ ~(Len(journeys) > 20)

(* ids counted from 0, as enumerate(journeys) without its start argument *)
JourneyWithFare_FromZero(journey, fare, idx) ==
    [from_zone |-> journey.from_zone, to_zone |-> journey.to_zone,
     fare |-> fare, journey_id |-> idx - 1]

JourneyWithFare(journey, fare, idx) ==
    [from_zone |-> journey.from_zone, to_zone |-> journey.to_zone,
     fare |-> fare, journey_id |-> idx]

(* round(x, 2): to the nearest hundredth, a tie going to the even hundredth *)
Round2(x) ==
    LET q == x \div 10
        r == x % 10
    IN  IF r < 5 THEN q * 10
        ELSE IF r > 5 THEN (q + 1) * 10
        ELSE IF q % 2 = 0 THEN q * 10 ELSE (q + 1) * 10

(* one pass of the loop of calculate_all_fares: r is what the fare lookup of
   the journey returned; acc = [w, items, total] *)
CalcStep(acc, r, journey, idx) ==
    [w |-> r.w,
     items |-> Append(acc.items, JourneyWithFare(journey, r.ret, idx)),
     total |-> acc.total + r.ret]

(* the loop of calculate_all_fares from journey idx on *)
RECURSIVE CalcLoop(_, _, _, _, _, _)
CalcLoop(acc, journeys, idx, rows, now_, up) ==
    IF Len(acc.items) >= Len(journeys) THEN acc
    ELSE CalcLoop(CalcStep(acc,
                           GetFareWithCache(acc.w, journeys[idx].from_zone,
                                            journeys[idx].to_zone, rows, now_, up),
                           journeys[idx], idx),
                  journeys, idx + 1, rows, now_, up)

(* the total left unrounded *)
FareResponse_NoRound(items, total, n) ==
    [journeys |-> items, total_daily_fare |-> total, journey_count |-> n]

FareResponse(items, total, n) ==
    [journeys |-> items, total_daily_fare |-> Round2(total), journey_count |-> n]

CalculateAllFares(w, journeys, rows, now_, up) ==
    LET acc == CalcLoop([w |-> w, items |-> <<>>, total |-> 0], journeys, 1, rows, now_, up)
    IN  [w |-> acc.w, response |-> FareResponse(acc.items, acc.total, Len(journeys))]

----------------------------------------------------------------------------
(* State *)

VARIABLES
    db,        \* rows of fare_rules
    redis,     \* the Redis store shared by all processes
    redisUp,   \* Redis answers
    now,       \* time.time()
    fc,        \* per process: the FareRulesCache singleton
    st,        \* per process: Settings._fare_rules_cache, _zones_cache
    adm,       \* per process: the administrative handler in progress
    resp,      \* per process: what the last finished call returned
    nAdmin,    \* rule store commits so far
    lastUpd,   \* per process: the update whose handler returned last, until
               \* the pair is resolved or the rule table changes again
    zonesCache, \* per process: the ZonesCache singleton
    storeUp,   \* the rule store database answers
    pend,      \* per process: the fare resolution between its rule store
               \* read and its set_fare_cache
    config     \* the value of max_journeys_per_day in system_config

vars == <<db, redis, redisUp, now, fc, st, adm, resp, nAdmin, lastUpd,
          zonesCache, storeUp, pend, config>>

Idle == [op |-> "idle", pc |-> 0, args |-> <<>>, committed |-> FALSE]

Init ==
    /\ db = default_rules
    /\ redis = EmptyDict
    /\ redisUp \in BOOLEAN
    /\ now = 0
    /\ fc = [i \in Inst |-> NoCache]
    /\ st = [i \in Inst |-> NoSettings]
    /\ adm = [i \in Inst |-> Idle]
    /\ resp = [i \in Inst |-> [op |-> "none"]]
    /\ nAdmin = 0
    /\ lastUpd = [i \in Inst |-> None]
    /\ zonesCache = [i \in Inst |-> NoZonesCache]
    /\ storeUp = TRUE
    /\ pend = [i \in Inst |-> None]
    /\ config = "20"

World(i) == [c |-> fc[i], redis |-> redis, log |-> <<>>]

----------------------------------------------------------------------------
(* Inputs *)

ResolveArgs == {<<1, 2>>, <<2, 1>>}

Repeat(seed, n) == [k \in 1..n |-> seed[((k - 1) % Len(seed)) + 1]]

ExampleJourneys == <<Journey(1, 2), Journey(2, 3), Journey(3, 3), Journey(1, 1)>>

(* a batch whose second journey has no rule when zone MaxZone was added with
   its self fare only *)
SparseJourneys == <<Journey(1, 2), Journey(1, MaxZone)>>

Batches ==
    { ExampleJourneys,
      SparseJourneys,
      Repeat(ExampleJourneys, MaxItems),
      Repeat(ExampleJourneys, MaxItems + 1) }

UpdatePairs == {<<1, 2>>, <<2, 1>>, <<1, MaxZone>>}
UpdateFares == {12344}

(* the dict {k: f for k in keys}, as the list of its items in key order *)
UniformDict(keys, f) == [k \in 1..Len(keys) |-> <<keys[k], f>>]

FaresDict(str_keys, K, f) ==
    [str_keys |-> str_keys, items |-> UniformDict(SortedList(K), f)]

(* zone number and fares_to_existing_zones of the add-zone requests *)
AddZoneRequests(rows) ==
    { <<3, FaresDict(FALSE, ZoneSet(rows) \cup {3}, 25000)>>,
      <<MaxZone, FaresDict(FALSE, ZoneSet(rows) \cup {MaxZone}, 25000)>>,
      <<MaxZone, FaresDict(TRUE, ZoneSet(rows) \cup {MaxZone}, 25000)>>,
      <<MaxZone, FaresDict(FALSE, {MaxZone}, 25000)>>,
      <<MaxZone, FaresDict(FALSE, ZoneSet(rows) \ {MaxZone}, 25000)>> }

CliNewZones == {MaxZone}
CliFares == {25000}

DictHasKey(d, k) == \E n \in 1..Len(d) : d[n][1] = k

----------------------------------------------------------------------------
(* Environment *)

Tick ==
    /\ now + TickStep <= MaxTime
    /\ now' = now + TickStep
    /\ UNCHANGED <<db, redis, redisUp, fc, st, adm, resp, nAdmin, lastUpd, zonesCache, storeUp, pend, config>>

RedisToggle ==
    /\ redisUp' = ~redisUp
    /\ UNCHANGED <<db, redis, now, fc, st, adm, resp, nAdmin, lastUpd, zonesCache, storeUp, pend, config>>

----------------------------------------------------------------------------
(* Calls served by process i.  A handler runs to completion on the event
   loop of its process, so a process starts a call only when it is idle. *)

IsLastUpd(i, a, b) ==
    lastUpd[i] # None /\ lastUpd[i][1].a = a /\ lastUpd[i][1].b = b

(* settings.get_fare(a, b) *)
GetFare(i, a, b) ==
    /\ adm[i].op = "idle"
    /\ LET r == GetFareWithCache(World(i), a, b, db, now, redisUp)
       IN  /\ fc' = [fc EXCEPT ![i] = r.w.c]
           /\ redis' = r.w.redis
           /\ resp' = [resp EXCEPT ![i] =
                         [op |-> "get_fare", a |-> a, b |-> b, ret |-> r.ret,
                          log |-> r.w.log,
                          rule |-> DbGetFare(db, a, b),
                          shared |-> r.w.c.client /\ redisUp,
                          after_update |-> IF IsLastUpd(i, a, b) THEN lastUpd[i] ELSE None]]
           /\ lastUpd' = [lastUpd EXCEPT ![i] = IF IsLastUpd(i, a, b) THEN None ELSE @]
    /\ UNCHANGED <<db, redisUp, now, st, adm, nAdmin, zonesCache, storeUp, pend, config>>

(* POST /api/calculate-fares: request validation, the endpoint's own count
   check (its HTTPException is caught by the handler's except Exception and
   re-raised as 500), calculate_all_fares *)
CalculateFares(i, journeys) ==
    /\ adm[i].op = "idle"
    /\ IF ~JourneyRequestValid(journeys, db)
       THEN /\ resp' = [resp EXCEPT ![i] =
                          [op |-> "calculate_fares", request |-> journeys,
                           status |-> 422, log |-> <<>>]]
            /\ UNCHANGED <<fc, redis, lastUpd>>
       ELSE IF Len(journeys) > MAX_JOURNEYS_PER_DAY
       THEN /\ resp' = [resp EXCEPT ![i] =
                          [op |-> "calculate_fares", request |-> journeys,
                           status |-> 500, log |-> <<>>]]
            /\ UNCHANGED <<fc, redis, lastUpd>>
       ELSE LET r == CalculateAllFares(World(i), journeys, db, now, redisUp)
            IN  /\ fc' = [fc EXCEPT ![i] = r.w.c]
                /\ redis' = r.w.redis
                /\ resp' = [resp EXCEPT ![i] =
                              [op |-> "calculate_fares", request |-> journeys,
                               status |-> 200, response |-> r.response,
                               log |-> r.w.log, fresh |-> (nAdmin = 0),
                               rules |-> [k \in 1..Len(journeys) |->
                                            DbGetFare(db, journeys[k].from_zone,
                                                      journeys[k].to_zone)]]]
                /\ lastUpd' = [lastUpd EXCEPT ![i] =
                                 IF \E k \in 1..Len(journeys) :
                                      IsLastUpd(i, journeys[k].from_zone, journeys[k].to_zone)
                                 THEN None ELSE @]
    /\ UNCHANGED <<db, redisUp, now, st, adm, nAdmin, zonesCache, storeUp, pend, config>>

(* settings.get_available_zones() *)
GetAvailableZones(i) ==
    /\ adm[i].op = "idle"
    /\ st' = [st EXCEPT ![i] = SettingsGetAvailableZones(@, db)]
    /\ resp' = [resp EXCEPT ![i] =
                  [op |-> "get_available_zones",
                   ret |-> SettingsGetAvailableZones(st[i], db).zc[1]]]
    /\ UNCHANGED <<db, redis, redisUp, now, fc, adm, nAdmin, lastUpd, zonesCache, storeUp, pend, config>>

----------------------------------------------------------------------------
(* Administrative handlers.  The statements of a handler after its request
   validation run in the order of its step list; adm[i].pc is the position
   of the statement to run next. *)

(* the handler with its cache reload moved before the commit *)
UpdateFareRuleSteps_ReloadFirst == <<"validate", "reload", "commit">>

UpdateFareRuleSteps == <<"validate", "commit", "reload">>
AddNewZoneSteps == <<"validate", "commit", "reload">>

StepsOf(op) == IF op = "update_fare_rule" THEN UpdateFareRuleSteps ELSE AddNewZoneSteps

InFlight == Cardinality({j \in Inst : adm[j].op # "idle"})

(* an administrative call ends "rejected" (HTTP 400) or "completed": the
   commit and the reload have run and the handler builds its reply *)
Completed(a) == [op |-> a.op, args |-> a.args, status |-> "completed"]

(* what the statement just run leaves in adm and resp *)
AfterStep(i, a) ==
    IF a.pc = Len(StepsOf(a.op))
    THEN /\ adm' = [adm EXCEPT ![i] = Idle]
         /\ resp' = [resp EXCEPT ![i] = Completed(a)]
    ELSE /\ adm' = [adm EXCEPT ![i] = [a EXCEPT !.pc = @ + 1]]
         /\ resp' = resp

Returns(a) == a.pc = Len(StepsOf(a.op))

(* the handler without its zone check *)
UpdateFareRuleStart_NoZoneCheck(i, a, b, fare) ==
    /\ adm[i].op = "idle"
    /\ nAdmin + InFlight < MaxAdmin
    /\ a >= 1 /\ b >= 1 /\ fare > 0
    /\ adm' = [adm EXCEPT ![i] =
                 [op |-> "update_fare_rule", pc |-> 2,
                  args |-> [a |-> a, b |-> b, fare |-> fare],
                  committed |-> FALSE]]
    /\ UNCHANGED <<st, resp>>
    /\ UNCHANGED <<db, redis, redisUp, now, fc, nAdmin, lastUpd, zonesCache, storeUp, pend, config>>

(* PUT /api/fare-rules up to the zone check *)
UpdateFareRuleStart(i, a, b, fare) ==
    /\ adm[i].op = "idle"
    /\ nAdmin + InFlight < MaxAdmin
    /\ a >= 1 /\ b >= 1 /\ fare > 0
    /\ IF ~SettingsIsValidZone(db, a) \/ ~SettingsIsValidZone(db, b)
       THEN /\ st' = [st EXCEPT ![i] = SettingsGetAvailableZones(@, db)]
            /\ resp' = [resp EXCEPT ![i] =
                          [op |-> "update_fare_rule", args |-> [a |-> a, b |-> b, fare |-> fare],
                           status |-> "rejected"]]
            /\ adm' = adm
       ELSE /\ adm' = [adm EXCEPT ![i] =
                         [op |-> "update_fare_rule", pc |-> 2,
                          args |-> [a |-> a, b |-> b, fare |-> fare],
                          committed |-> FALSE]]
            /\ UNCHANGED <<st, resp>>
    /\ UNCHANGED <<db, redis, redisUp, now, fc, nAdmin, lastUpd, zonesCache, storeUp, pend, config>>

(* the handler without its self-fare check *)
AddNewZoneStart_NoSelfFareCheck(i, z, fares) ==
    /\ adm[i].op = "idle"
    /\ nAdmin + InFlight < MaxAdmin
    /\ z >= 1
    /\ IF DbIsValidZone(db, z)
       THEN /\ resp' = [resp EXCEPT ![i] =
                          [op |-> "add_new_zone", args |-> [z |-> z, fares |-> fares],
                           status |-> "rejected"]]
            /\ adm' = adm
       ELSE /\ adm' = [adm EXCEPT ![i] =
                         [op |-> "add_new_zone", pc |-> 2,
                          args |-> [z |-> z, fares |-> fares],
                          committed |-> FALSE]]
            /\ resp' = resp
    /\ UNCHANGED <<db, redis, redisUp, now, fc, st, nAdmin, lastUpd, zonesCache, storeUp, pend, config>>

(* POST /api/zones up to the self-fare check.  fares = [str_keys, items]:
   a JSON body gives the dict string keys, which the int zone_number is
   never a member of. *)
AddNewZoneStart(i, z, fares) ==
    /\ adm[i].op = "idle"
    /\ nAdmin + InFlight < MaxAdmin
    /\ z >= 1
    /\ IF DbIsValidZone(db, z) \/ fares.str_keys \/ ~DictHasKey(fares.items, z)
       THEN /\ resp' = [resp EXCEPT ![i] =
                          [op |-> "add_new_zone", args |-> [z |-> z, fares |-> fares],
                           status |-> "rejected"]]
            /\ adm' = adm
       ELSE /\ adm' = [adm EXCEPT ![i] =
                         [op |-> "add_new_zone", pc |-> 2,
                          args |-> [z |-> z, fares |-> fares],
                          committed |-> FALSE]]
            /\ resp' = resp
    /\ UNCHANGED <<db, redis, redisUp, now, fc, st, nAdmin, lastUpd, zonesCache, storeUp, pend, config>>

(* db_manager.update_fare_rule(...) / db_manager.add_zone(...) *)
AdminCommit(i) ==
    LET a == adm[i]
    IN  /\ a.op # "idle"
        /\ StepsOf(a.op)[a.pc] = "commit"
        /\ db' = IF a.op = "update_fare_rule"
                 THEN DbUpdateFareRule(db, a.args.a, a.args.b, a.args.fare)
                 ELSE DbAddZone(db, a.args.z, a.args.fares.items)
        /\ nAdmin' = nAdmin + 1
        /\ AfterStep(i, [a EXCEPT !.committed = TRUE])
        /\ lastUpd' = [j \in Inst |->
                         IF j = i /\ Returns(a) /\ a.op = "update_fare_rule"
                         THEN Some(a.args) ELSE None]
        /\ UNCHANGED <<redis, redisUp, now, fc, st, zonesCache, storeUp, pend, config>>

(* settings.reload_fare_rules() *)
AdminReload(i) ==
    LET a == adm[i]
    IN  /\ a.op # "idle"
        /\ StepsOf(a.op)[a.pc] = "reload"
        /\ st' = [st EXCEPT ![i] = ReloadFareRules(@, db)]
        /\ AfterStep(i, a)
        /\ lastUpd' = [lastUpd EXCEPT ![i] =
                         IF Returns(a) /\ a.op = "update_fare_rule"
                         THEN Some(a.args) ELSE @]
        /\ UNCHANGED <<db, redis, redisUp, now, fc, nAdmin, zonesCache, storeUp, pend, config>>

----------------------------------------------------------------------------
(* manage_db.py, run as a process of its own against the same database *)

CliAddZone(z, fare) ==
    LET existing_zones == DbGetAvailableZones(db)
    IN  /\ nAdmin + InFlight < MaxAdmin
        /\ ~InList(z, existing_zones)
        /\ db' = DbAddZone(db, z, UniformDict(Append(existing_zones, z), fare))
        /\ nAdmin' = nAdmin + 1
        /\ lastUpd' = [j \in Inst |-> None]
        /\ UNCHANGED <<redis, redisUp, now, fc, st, adm, resp, zonesCache, storeUp, pend, config>>

(* manage_db.py update: the command returns without a change when a zone is
   not among the available zones or the fare is not positive *)
CliUpdateRule(a, b, new_fare) ==
    LET available_zones == DbGetAvailableZones(db)
    IN  /\ nAdmin + InFlight < MaxAdmin
        /\ InList(a, available_zones) /\ InList(b, available_zones)
        /\ ~(new_fare <= 0)
        /\ db' = DbUpdateFareRule(db, a, b, new_fare)
        /\ nAdmin' = nAdmin + 1
        /\ lastUpd' = [j \in Inst |-> None]
        /\ UNCHANGED <<redis, redisUp, now, fc, st, adm, resp, zonesCache, storeUp, pend, config>>

----------------------------------------------------------------------------

Next ==
    \/ Tick
    \/ RedisToggle
    \/ \E i \in Serving :
         \/ \E p \in ResolveArgs : GetFare(i, p[1], p[2])
         \/ \E journeys \in Batches : CalculateFares(i, journeys)
         \/ GetAvailableZones(i)
         \/ \E p \in UpdatePairs, f \in UpdateFares : UpdateFareRuleStart(i, p[1], p[2], f)
         \/ \E r \in AddZoneRequests(db) : AddNewZoneStart(i, r[1], r[2])
         \/ AdminCommit(i)
         \/ AdminReload(i)
    \/ \E z \in CliNewZones, f \in CliFares : CliAddZone(z, f)

Spec == Init /\ [][Next]_vars

----------------------------------------------------------------------------
(* Properties *)

Calls(i, op) == resp[i].op = op

(* the value settings.get_fare(a, b) would return in the current state *)
ResolveValue(i, a, b) == GetFareWithCache(World(i), a, b, db, now, redisUp).ret

(* the list settings.get_available_zones() would return in the current state *)
AvailableZonesValue(i) == SettingsGetAvailableZones(st[i], db).zc[1]

(* C1: after update_fare_rule(a, b, newFare) and reload_fare_rules(), the
   next resolution of (a, b) returns newFare, never a cached value. *)
C1_InvalidationAfterUpdate ==
    \A i \in Inst :
        (Calls(i, "get_fare") /\ resp[i].after_update # None)
            => resp[i].ret = resp[i].after_update[1].fare

(* C2: in every state, for all registered zones a and b, resolving (a, b)
   returns the same fare as resolving (b, a). *)
C2_FareSymmetry ==
    \A i \in Serving :
        adm[i].op = "idle" =>
            \A a \in ZoneSet(db), b \in ZoneSet(db) :
                ResolveValue(i, a, b) = ResolveValue(i, b, a)

(* C3: every fare resolution of a pair that has a rule returns the value a
   direct rule store lookup returns at that moment, whichever level answers. *)
C3_CacheTransparency ==
    \A i \in Inst :
        (Calls(i, "get_fare") /\ resp[i].rule # None)
            => resp[i].ret = resp[i].rule[1]

(* C4: in an administrative mutation the reload step runs only after the
   rule store commit of the same mutation, and the rules and zones it loads
   contain what that commit wrote. *)
C4_InvalidateAfterWrite ==
    [][\A i \in Inst :
         (/\ adm[i].op # "idle"
          /\ StepsOf(adm[i].op)[adm[i].pc] = "reload"
          /\ adm'[i] # adm[i])
         => /\ adm[i].committed
            /\ IF adm[i].op = "update_fare_rule"
               THEN /\ <<adm[i].args.a, adm[i].args.b>> \in DOMAIN st'[i].frc[1]
                    /\ st'[i].frc[1][<<adm[i].args.a, adm[i].args.b>>] = adm[i].args.fare
               ELSE InList(adm[i].args.z, st'[i].zc[1])]_vars

C4_Witness ==
    \E i \in Inst :
        /\ Calls(i, "update_fare_rule") /\ resp[i].status = "completed"
        /\ st[i].frc # None
        /\ st[i].frc[1][<<resp[i].args.a, resp[i].args.b>>] = resp[i].args.fare

(* C5: right after reload_fare_rules() returns, the process-local fare cache,
   the memoizer and the shared cache hold no entry written before it. *)
C5_ReloadInvalidatesAllLevels ==
    \A i \in Inst :
        ((Calls(i, "update_fare_rule") \/ Calls(i, "add_new_zone"))
            /\ resp[i].status = "completed")
            => /\ fc[i].mem = EmptyDict
               /\ fc[i].ts = EmptyDict
               /\ fc[i].lru = EmptyDict
               /\ redis = EmptyDict

(* C6: with the shared cache unreachable during the call, a fare resolution
   of a pair that has a rule returns the rule store's current fare. *)
C6_DegradedSharedCache ==
    \A i \in Inst :
        (Calls(i, "get_fare") /\ ~resp[i].shared /\ resp[i].rule # None)
            => resp[i].ret = resp[i].rule[1]

(* C7: calculate_all_fares returns one item per journey, in input order,
   item k carrying the zones of journey k, the fare of the k-th lookup made
   and journey_id k; the lookups are made in input order; journey_count = n. *)
C7_OrderPreservation ==
    \A i \in Inst :
        (Calls(i, "calculate_fares") /\ resp[i].status = 200) =>
            LET req == resp[i].request
                out == resp[i].response
                log == resp[i].log
            IN  /\ Len(out.journeys) = Len(req)
                /\ out.journey_count = Len(req)
                /\ Len(log) = Len(req)
                /\ \A k \in 1..Len(req) :
                      /\ out.journeys[k].from_zone = req[k].from_zone
                      /\ out.journeys[k].to_zone = req[k].to_zone
                      /\ out.journeys[k].journey_id = k
                      /\ log[k].a = req[k].from_zone
                      /\ log[k].b = req[k].to_zone
                      /\ out.journeys[k].fare = log[k].ret

C7_Witness ==
    \E i \in Inst :
        /\ Calls(i, "calculate_fares") /\ resp[i].status = 200
        /\ Len(resp[i].request) = MaxItems
        /\ resp[i].response.journeys[1].fare # resp[i].response.journeys[2].fare

RECURSIVE SumFares(_)
SumFares(items) == IF items = <<>> THEN 0 ELSE Head(items).fare + SumFares(Tail(items))

(* t is sum rounded to two decimals: a whole number of hundredths, at most
   half a hundredth away from sum *)
IsRounded2(t, sum) == t % 10 = 0 /\ t - sum <= 5 /\ sum - t <= 5

FaresOf(items) == [k \in 1..Len(items) |-> items[k].fare]

(* C8: total_daily_fare is the sum of the itemized fares of the same
   response rounded to two decimals once; the example journeys against the
   default rules give items 55, 45, 30, 40, total 170.00, count 4. *)
C8_TotalCorrectness ==
    \A i \in Inst :
        (Calls(i, "calculate_fares") /\ resp[i].status = 200) =>
            LET out == resp[i].response
            IN  /\ IsRounded2(out.total_daily_fare, SumFares(out.journeys))
                /\ (resp[i].fresh /\ resp[i].request = ExampleJourneys)
                     => /\ FaresOf(out.journeys) = <<55000, 45000, 30000, 40000>>
                        /\ out.total_daily_fare = 170000
                        /\ out.journey_count = 4

(* a total that differs from the unrounded sum of its items *)
C8_Witness ==
    \E i \in Inst :
        /\ Calls(i, "calculate_fares") /\ resp[i].status = 200
        /\ resp[i].response.total_daily_fare # SumFares(resp[i].response.journeys)

(* C9: is_valid_zone(z) is true exactly for the zones that
   get_available_zones() returns, in every state. *)
C9_ZoneValidationBoundary ==
    \A i \in Serving :
        adm[i].op = "idle" =>
            \A z \in (-1)..(MaxZone + 1) :
                SettingsIsValidZone(db, z) <=> InList(z, AvailableZonesValue(i))

(* C10: a batch of exactly the maximum number of journeys is accepted and
   every journey priced; a batch of one more is rejected without any fare
   lookup. *)
C10_BatchLimitBoundary ==
    \A i \in Inst :
        Calls(i, "calculate_fares") =>
            LET req == resp[i].request
            IN  /\ (Len(req) = MAX_JOURNEYS_PER_DAY
                      /\ \A k \in 1..Len(req) : JourneyValid(req[k], db))
                     => /\ resp[i].status = 200
                        /\ Len(resp[i].response.journeys) = MAX_JOURNEYS_PER_DAY
                        /\ Len(resp[i].log) = MAX_JOURNEYS_PER_DAY
                /\ Len(req) = MAX_JOURNEYS_PER_DAY + 1
                     => /\ resp[i].status # 200
                        /\ resp[i].log = <<>>

C10_Witness ==
    \E i \in Inst :
        /\ Calls(i, "calculate_fares")
        /\ Len(resp[i].request) = MAX_JOURNEYS_PER_DAY + 1
        /\ resp[i].status = 422

----------------------------------------------------------------------------
(* C11: a journey whose pair has no rule in the rule store, in either
   ordering, is resolved to the zero fare without failing: the batch is
   answered in full, the lookup of that journey returns 0, its item carries
   fare 0 and the total is the rounded sum of the other journeys' fares. *)
PricedFares(items, rules) ==
    [k \in 1..Len(items) |-> [fare |-> IF rules[k] = None THEN 0 ELSE items[k].fare]]

C11_MissingRuleSentinel ==
    \A i \in Inst :
        (Calls(i, "calculate_fares") /\ resp[i].status = 200) =>
            LET req == resp[i].request
                out == resp[i].response
                log == resp[i].log
            IN  /\ Len(out.journeys) = Len(req)
                /\ Len(log) = Len(req)
                /\ \A k \in 1..Len(req) :
                      resp[i].rules[k] = None =>
                          /\ log[k].ret = 0
                          /\ log[k].src = "none"
                          /\ out.journeys[k].fare = 0
                /\ IsRounded2(out.total_daily_fare,
                              SumFares(PricedFares(out.journeys, resp[i].rules)))

(* a priced batch holding a journey without a rule beside one with a rule *)
C11_Witness ==
    \E i \in Inst :
        /\ Calls(i, "calculate_fares") /\ resp[i].status = 200
        /\ resp[i].request = SparseJourneys
        /\ resp[i].rules[2] = None
        /\ resp[i].response.journeys[2].fare = 0
        /\ resp[i].response.total_daily_fare = resp[i].response.journeys[1].fare
        /\ resp[i].response.total_daily_fare > 0

----------------------------------------------------------------------------
(* C22: when the handler of an administrative operation (rule update, add
   zone) returns, the zone set cached by its process has been dropped and
   re-derived: the next get_available_zones() returns the zones of the rule
   store as committed, the ZonesCache holds no zone set, and after an add-zone
   of z, is_valid_zone(z) is true and z is in get_available_zones(). *)
C22_ZoneSetRefresh ==
    [][\A i \in Inst :
          (adm[i].op # "idle" /\ adm'[i].op = "idle") =>
              /\ resp'[i].status = "completed"
              /\ adm[i].committed
              /\ GetZones(zonesCache'[i], now') = None
              /\ SettingsGetAvailableZones(st'[i], db').zc[1] = DbGetAvailableZones(db')
              /\ adm[i].op = "add_new_zone" =>
                    /\ SettingsIsValidZone(db', adm[i].args.z)
                    /\ InList(adm[i].args.z,
                              SettingsGetAvailableZones(st'[i], db').zc[1])]_vars

(* an add-zone handler has returned and the zones its process caches hold the
   new zone beside the zones known before *)
C22_Witness ==
    \E i \in Inst :
        /\ Calls(i, "add_new_zone") /\ resp[i].status = "completed"
        /\ st[i].zc # None
        /\ InList(resp[i].args.z, st[i].zc[1])
        /\ InList(1, st[i].zc[1])
        /\ SettingsIsValidZone(db, resp[i].args.z)

(* C26: in every state, for every two zones a and b of the list that
   get_available_zones() returns, settings.get_fare(a, b) is greater than 0. *)
C26_FareRuleCompleteness ==
    \A i \in Serving :
        adm[i].op = "idle" =>
            LET zones == AvailableZonesValue(i)
            IN  \A k \in 1..Len(zones), l \in 1..Len(zones) :
                    ResolveValue(i, zones[k], zones[l]) > 0

(* a journey of the batch names a zone that no row of the rule table has *)
HasUnknownZone(journeys, rows) ==
    \E k \in 1..Len(journeys) :
        journeys[k].from_zone \notin ZoneSet(rows) \/ journeys[k].to_zone \notin ZoneSet(rows)

(* C28: a Journey whose from_zone or to_zone is not a zone of the rule table
   (zone 0 included) fails validation, and a batch request holding such a
   journey is rejected as a whole, without any fare looked up. *)
C28_UnknownZoneRejection ==
    /\ \A a \in 0..(MaxZone + 1), b \in 0..(MaxZone + 1) :
          (a \notin ZoneSet(db) \/ b \notin ZoneSet(db))
              => ~JourneyValid(Journey(a, b), db)
    /\ \A i \in Inst :
          (Calls(i, "calculate_fares") /\ HasUnknownZone(resp[i].request, db))
              => /\ resp[i].status = 422
                 /\ resp[i].log = <<>>

(* a batch refused for its journey to a zone that is not registered *)
C28_Witness ==
    \E i \in Serving :
        /\ Calls(i, "calculate_fares")
        /\ resp[i].request = SparseJourneys
        /\ HasUnknownZone(resp[i].request, db)
        /\ resp[i].status = 422
        /\ resp[i].log = <<>>

----------------------------------------------------------------------------
(* The FareRulesCache object of process 1 driven through its own methods, as
   the callers of the class use it: get_fare_cached, set_fare_cache,
   invalidate_cache, bulk_load_fares and, through Settings.get_fare,
   get_fare_with_cache, against a rule table that does not change
   meanwhile. *)

(* the default rule table, and the table after update_fare_rule(2, 1, f) has
   inserted a row beside the row of (1, 2) *)
RuleTables == {default_rules, DbUpdateFareRule(default_rules, 2, 1, 12344)}

CachePairs == {<<1, 2>>, <<2, 1>>}
SetFares == {70000}

(* from_zone and to_zone of invalidate_cache: a pair, a pair with zone 0,
   neither *)
InvalidateArgs == {<<Some(1), Some(2)>>, <<Some(0), Some(2)>>, <<None, None>>}

(* FareRulesCache(redis_url): redis_client is set when the ping succeeds *)
NewCache(up) == [NoCache EXCEPT !.inited = TRUE, !.client = up]

CacheInit ==
    /\ db \in RuleTables
    /\ redis = EmptyDict
    /\ redisUp \in BOOLEAN
    /\ now = 0
    /\ fc = [i \in Inst |-> IF i \in Serving THEN NewCache(redisUp) ELSE NoCache]
    /\ st = [i \in Inst |-> NoSettings]
    /\ adm = [i \in Inst |-> Idle]
    /\ resp = [i \in Inst |-> [op |-> "none"]]
    /\ nAdmin = 0
    /\ lastUpd = [i \in Inst |-> None]
    /\ zonesCache = [i \in Inst |-> NoZonesCache]
    /\ storeUp = TRUE
    /\ pend = [i \in Inst |-> None]
    /\ config = "20"

(* the values the cache holds for the pair (a, b): in the dict, in Redis and
   in the memoizer *)
HeldValues(w, a, b) ==
    LET key == MakeKey(a, b)
    IN  {w.c.mem[k] : k \in {key} \cap DOMAIN w.c.mem}
          \cup {FloatOf(w.redis[k].val) : k \in {key} \cap DOMAIN w.redis}
          \cup {w.c.lru[q][1] : q \in {q \in {<<a, b>>, <<b, a>>} \cap DOMAIN w.c.lru :
                                        w.c.lru[q] # None}}

(* cache.get_fare_cached(a, b) *)
CacheGet(i, a, b) ==
    /\ LET r == GetFareCached(World(i), a, b, now, redisUp)
       IN  /\ fc' = [fc EXCEPT ![i] = r.w.c]
           /\ redis' = r.w.redis
           /\ resp' = [resp EXCEPT ![i] =
                         [op |-> "get_fare_cached", a |-> a, b |-> b,
                          ret |-> r.ret, src |-> r.src, reads |-> r.reads]]
    /\ UNCHANGED <<db, redisUp, now, st, adm, nAdmin, lastUpd, zonesCache, storeUp, pend, config>>

(* cache.set_fare_cache(a, b, fare) *)
CacheSet(i, a, b, fare) ==
    /\ LET w == SetFareCache(World(i), a, b, fare, now, redisUp)
       IN  /\ fc' = [fc EXCEPT ![i] = w.c]
           /\ redis' = w.redis
           /\ resp' = [resp EXCEPT ![i] =
                         [op |-> "set_fare_cache", a |-> a, b |-> b,
                          fare |-> fare, at |-> now]]
    /\ UNCHANGED <<db, redisUp, now, st, adm, nAdmin, lastUpd, zonesCache, storeUp, pend, config>>

(* cache.invalidate_cache(from_zone, to_zone) *)
CacheInvalidate(i, from_zone, to_zone) ==
    /\ LET w == InvalidateCache(World(i), from_zone, to_zone, redisUp)
       IN  /\ fc' = [fc EXCEPT ![i] = w.c]
           /\ redis' = w.redis
           /\ resp' = [resp EXCEPT ![i] =
                         [op |-> "invalidate_cache",
                          from_zone |-> from_zone, to_zone |-> to_zone,
                          held |-> [p \in CachePairs |->
                                      HeldValues(World(i), p[1], p[2])]]]
    /\ UNCHANGED <<db, redisUp, now, st, adm, nAdmin, lastUpd, zonesCache, storeUp, pend, config>>

(* cache.bulk_load_fares(db_manager.get_all_fare_rules()) *)
CacheBulkLoad(i) ==
    /\ LET w == BulkLoadFares(World(i), db, now, redisUp)
       IN  /\ fc' = [fc EXCEPT ![i] = w.c]
           /\ redis' = w.redis
           /\ resp' = [resp EXCEPT ![i] = [op |-> "bulk_load_fares", at |-> now]]
    /\ UNCHANGED <<db, redisUp, now, st, adm, nAdmin, lastUpd, zonesCache, storeUp, pend, config>>

CacheNext ==
    \/ Tick
    \/ RedisToggle
    \/ \E i \in Serving :
         \/ \E p \in CachePairs : CacheGet(i, p[1], p[2])
         \/ \E p \in CachePairs, f \in SetFares : CacheSet(i, p[1], p[2], f)
         \/ \E q \in InvalidateArgs : CacheInvalidate(i, q[1], q[2])
         \/ CacheBulkLoad(i)
         \/ \E p \in CachePairs : GetFare(i, p[1], p[2])

CacheSpec == CacheInit /\ [][CacheNext]_vars

----------------------------------------------------------------------------
(* Properties of the cache object *)

(* the in-memory dict holds an unexpired entry under key *)
LocalHit(c, key, now_) == key \in DOMAIN c.mem /\ IsMemoryCacheValid(c, key, now_)

(* Redis is reachable by the object and holds an unexpired entry under key *)
SharedHit(c, redis_, key, now_, up) ==
    c.client /\ up /\ RedisGet(redis_, key, now_) # None

Rank(level) == IF level = "memory" THEN 1 ELSE IF level = "redis" THEN 2 ELSE 3

LevelOrder(reads) ==
    \A m \in 1..Len(reads), n \in 1..Len(reads) :
        m < n => Rank(reads[m]) < Rank(reads[n])

Reads(level, reads) == \E n \in 1..Len(reads) : reads[n] = level

(* C12: a fare resolution consults the process-local cache first, the shared
   cache only after a process-local miss and the rule store only after both
   levels miss; on a process-local hit neither of the two is read. *)
C12_LookupOrder ==
    [][\A i \in Serving, p \in CachePairs :
          GetFare(i, p[1], p[2]) =>
              LET reads == resp'[i].log[1].reads
                  key == MakeKey(p[1], p[2])
                  l1 == LocalHit(fc[i], key, now)
                  l2 == SharedHit(fc[i], redis, key, now, redisUp)
              IN  /\ LevelOrder(reads)
                  /\ Reads("redis", reads) => (Reads("memory", reads) /\ ~l1)
                  /\ Reads("db", reads) => (~l1 /\ ~l2)
                  /\ l1 => (~Reads("redis", reads) /\ ~Reads("db", reads))]_vars

(* C13: after a resolution answered by the shared cache the in-memory dict
   holds the returned value under the normalized key; after one answered by
   the rule store the dict holds it and, when Redis is reachable, Redis holds
   it under the same key with the configured TTL. *)
C13_BackFill ==
    [][\A i \in Serving, p \in CachePairs :
          GetFare(i, p[1], p[2]) =>
              LET e == resp'[i].log[1]
                  key == MakeKey(p[1], p[2])
                  c == fc'[i]
                  local == /\ key \in DOMAIN c.mem /\ c.mem[key] = e.ret
                           /\ key \in DOMAIN c.ts /\ c.ts[key] = now
                  shared == /\ key \in DOMAIN redis'
                            /\ FloatOf(redis'[key].val) = e.ret
                            /\ redis'[key].exp = now + TTL
              IN  /\ e.src = "redis" => local
                  /\ e.src = "db" => (local /\ ((fc[i].client /\ redisUp) => shared))]_vars

(* a resolution answered by Redis, its value now in the in-memory dict *)
C13_Witness ==
    \E i \in Serving :
        /\ Calls(i, "get_fare")
        /\ resp[i].log[1].src = "redis"
        /\ LocalHit(fc[i], MakeKey(resp[i].a, resp[i].b), now)
        /\ fc[i].mem[MakeKey(resp[i].a, resp[i].b)] = resp[i].ret

(* C14: with no shared cache, get_fare_cached returns a fare only when the
   dict holds an entry for the normalized key whose age is below the TTL,
   and then that entry's value; an entry whose age has reached the TTL is not
   returned, whatever was called before. *)
C14_ProcessLocalTTL ==
    [][\A i \in Serving, p \in CachePairs :
          (CacheGet(i, p[1], p[2]) /\ ~fc[i].client /\ resp'[i].ret # None) =>
              LET key == MakeKey(p[1], p[2])
              IN  /\ key \in DOMAIN fc[i].mem
                  /\ key \in DOMAIN fc[i].ts
                  /\ now - fc[i].ts[key] < TTL
                  /\ resp'[i].ret = Some(fc[i].mem[key])]_vars

(* C15: a get_fare_cached of (a, b) or (b, a) that follows set_fare_cache(a,
   b, f), before the TTL has elapsed and with no invalidation or other write
   between, returns f, whatever was called before the set. *)
C15_SetThenGet ==
    [][\A i \in Serving, p \in CachePairs :
          (/\ resp[i].op = "set_fare_cache"
           /\ MakeKey(resp[i].a, resp[i].b) = MakeKey(p[1], p[2])
           /\ now - resp[i].at < TTL
           /\ CacheGet(i, p[1], p[2]))
              => resp'[i].ret = Some(resp[i].fare)]_vars

(* C16: invalidate_cache(a, b) with both zones given removes the entry of the
   normalized pair from the dict, its timestamps and Redis and leaves every
   other key's value, timestamp and Redis entry as it was; invalidate_cache()
   with neither given leaves no fare entry in any of them. *)
C16_TargetedInvalidation ==
    [][\A i \in Serving, q \in InvalidateArgs :
          CacheInvalidate(i, q[1], q[2]) =>
              IF q[1] # None /\ q[2] # None
              THEN LET key == MakeKey(q[1][1], q[2][1])
                   IN  /\ key \notin DOMAIN fc'[i].mem
                       /\ key \notin DOMAIN fc'[i].ts
                       /\ fc[i].client => key \notin DOMAIN redis'
                       /\ \A k \in DOMAIN fc[i].mem \ {key} :
                              k \in DOMAIN fc'[i].mem /\ fc'[i].mem[k] = fc[i].mem[k]
                       /\ \A k \in DOMAIN fc[i].ts \ {key} :
                              k \in DOMAIN fc'[i].ts /\ fc'[i].ts[k] = fc[i].ts[k]
                       /\ \A k \in DOMAIN redis \ {key} :
                              k \in DOMAIN redis' /\ redis'[k] = redis[k]
              ELSE /\ DOMAIN fc'[i].mem = {}
                   /\ DOMAIN fc'[i].ts = {}
                   /\ fc[i].client => DOMAIN redis' = {}]_vars

(* the invalidation r removes the entry of the pair p: it is global, or
   targeted at the normalized pair of p *)
Covers(r, p) ==
    \/ r.from_zone = None /\ r.to_zone = None
    \/ /\ r.from_zone # None /\ r.to_zone # None
       /\ MakeKey(r.from_zone[1], r.to_zone[1]) = MakeKey(p[1], p[2])

(* C17: a get_fare_cached of (a, b) or (b, a) that follows an invalidation of
   that pair, targeted or global, with no write between, does not return a
   value the cache held for the pair before the invalidation, in the dict,
   in the memoizer or in Redis. *)
C17_NoPreInvalidationValue ==
    [][\A i \in Serving, p \in CachePairs :
          (/\ resp[i].op = "invalidate_cache"
           /\ Covers(resp[i], p)
           /\ CacheGet(i, p[1], p[2]))
              => (resp'[i].ret = None \/ resp'[i].ret[1] \notin resp[i].held[p])]_vars

(* the object has no Redis client, or Redis does not answer *)
SharedDown(i) == ~(fc[i].client /\ redisUp)

(* C19: while the shared cache is unreachable, from construction on or at
   call time, no cache operation touches Redis or takes a value from it: a
   get not answered by the process-local level reports absent, and set,
   invalidate and bulk load still update the dict and its timestamps. *)
C19_SharedCacheFailSoft ==
    [][\A i \in Serving :
          SharedDown(i) =>
              /\ \A p \in CachePairs :
                    CacheGet(i, p[1], p[2]) =>
                        /\ redis' = redis
                        /\ resp'[i].src # "redis"
                        /\ (~LocalHit(fc[i], MakeKey(p[1], p[2]), now)
                              /\ p \notin DOMAIN fc[i].lru)
                             => (resp'[i].ret = None /\ fc'[i].mem = fc[i].mem)
              /\ \A p \in CachePairs, f \in SetFares :
                    CacheSet(i, p[1], p[2], f) =>
                        /\ redis' = redis
                        /\ LocalHit(fc'[i], MakeKey(p[1], p[2]), now)
                        /\ fc'[i].mem[MakeKey(p[1], p[2])] = f
                        /\ fc'[i].ts[MakeKey(p[1], p[2])] = now
              /\ \A q \in InvalidateArgs :
                    CacheInvalidate(i, q[1], q[2]) =>
                        /\ redis' = redis
                        /\ IF q[1] # None /\ q[2] # None
                           THEN /\ MakeKey(q[1][1], q[2][1]) \notin DOMAIN fc'[i].mem
                                /\ MakeKey(q[1][1], q[2][1]) \notin DOMAIN fc'[i].ts
                           ELSE DOMAIN fc'[i].mem = {} /\ DOMAIN fc'[i].ts = {}
              /\ CacheBulkLoad(i) =>
                        /\ redis' = redis
                        /\ \A k \in 1..Len(db) :
                              LET key == MakeKey(db[k].from_zone, db[k].to_zone)
                              IN  LocalHit(fc'[i], key, now) /\ fc'[i].ts[key] = now]_vars

(* a set made while Redis, connected at construction, does not answer: the
   dict holds the fare, Redis does not *)
C19_Witness ==
    \E i \in Serving :
        /\ resp[i].op = "set_fare_cache"
        /\ fc[i].client /\ ~redisUp
        /\ LocalHit(fc[i], MakeKey(resp[i].a, resp[i].b), now)
        /\ fc[i].mem[MakeKey(resp[i].a, resp[i].b)] = resp[i].fare
        /\ MakeKey(resp[i].a, resp[i].b) \notin DOMAIN redis

(* C20: bulk_load_fares(rule table) leaves every rule's normalized key in the
   dict stamped with the current time and, with Redis reachable, in Redis
   with the configured TTL; a get_fare_cached of (a, b) or (b, a) made next
   returns the fare the rule store lookup of that pair returns. *)
C20_BulkLoad ==
    [][\A i \in Serving :
          CacheBulkLoad(i) =>
              LET w1 == [c |-> fc'[i], redis |-> redis', log |-> <<>>]
              IN  \A k \in 1..Len(db) :
                      LET a == db[k].from_zone
                          b == db[k].to_zone
                          key == MakeKey(a, b)
                      IN  /\ key \in DOMAIN fc'[i].mem
                          /\ fc'[i].ts[key] = now
                          /\ (fc[i].client /\ redisUp) =>
                                (key \in DOMAIN redis' /\ redis'[key].exp = now + TTL)
                          /\ GetFareCached(w1, a, b, now, redisUp).ret = DbGetFare(db, a, b)
                          /\ GetFareCached(w1, b, a, now, redisUp).ret = DbGetFare(db, b, a)]_vars

----------------------------------------------------------------------------
(* One FareRulesCache object without Redis that is given one new pair after
   the other by set_fare_cache. *)

MaxFill == LruMaxSize + 1

FillInit ==
    /\ db = default_rules
    /\ redis = EmptyDict
    /\ redisUp = FALSE
    /\ now = 0
    /\ fc = [i \in Inst |-> IF i \in Serving THEN NewCache(FALSE) ELSE NoCache]
    /\ st = [i \in Inst |-> NoSettings]
    /\ adm = [i \in Inst |-> Idle]
    /\ resp = [i \in Inst |-> [op |-> "none"]]
    /\ nAdmin = 0
    /\ lastUpd = [i \in Inst |-> None]
    /\ zonesCache = [i \in Inst |-> NoZonesCache]
    /\ storeUp = TRUE
    /\ pend = [i \in Inst |-> None]
    /\ config = "20"

(* cache.set_fare_cache(1, n + 1, fare) on a cache holding n entries *)
FillSet(i) ==
    LET n == Cardinality(DOMAIN fc[i].mem)
    IN  /\ n < MaxFill
        /\ \E f \in SetFares : CacheSet(i, 1, n + 1, f)

FillNext == \E i \in Serving : FillSet(i)

FillSpec == FillInit /\ [][FillNext]_vars

(* C18: the in-memory fare dict never holds more distinct entries than the
   configured capacity (the only capacity the class configures is the
   maxsize of lru_cache); a set at capacity evicts an entry. *)
C18_CapacityBound ==
    \A i \in Inst : Cardinality(DOMAIN fc[i].mem) <= LruMaxSize

----------------------------------------------------------------------------
(* The ZonesCache object of process 1 driven through its own methods, with
   set_zones given what the rule store returns at the time of the call, while
   manage_db.py may add a zone to the rule table. *)

(* the default rule table, and the table after add_zone(MaxZone, fares) with
   the same fares given in two orders of the dict's keys *)
ZoneTables ==
    { default_rules,
      DbAddZone(default_rules, MaxZone, UniformDict(<<1, 2, 3, MaxZone>>, 25000)),
      DbAddZone(default_rules, MaxZone, UniformDict(<<MaxZone, 3, 2, 1>>, 25000)) }

ZoneInit ==
    /\ db \in ZoneTables
    /\ redis = EmptyDict
    /\ redisUp = FALSE
    /\ now = 0
    /\ fc = [i \in Inst |-> NoCache]
    /\ st = [i \in Inst |-> NoSettings]
    /\ adm = [i \in Inst |-> Idle]
    /\ resp = [i \in Inst |-> [op |-> "none"]]
    /\ nAdmin = 0
    /\ lastUpd = [i \in Inst |-> None]
    /\ zonesCache = [i \in Inst |-> NoZonesCache]
    /\ storeUp = TRUE
    /\ pend = [i \in Inst |-> None]
    /\ config = "20"

(* the last set_zones or invalidate made on the object, as the calls on it
   have recorded it *)
LastWrite(r) ==
    IF r.op \in {"set_zones", "invalidate", "get_zones"} THEN r.last
    ELSE [op |-> "none"]

(* zones_cache.set_zones(db_manager.get_available_zones(),
                         db_manager.get_all_fare_rules()) *)
ZonesCacheSet(i) ==
    /\ zonesCache' = [zonesCache EXCEPT ![i] =
                        SetZones(@, DbGetAvailableZones(db), DbAllFareRulesItems(db), now)]
    /\ resp' = [resp EXCEPT ![i] =
                  [op |-> "set_zones",
                   last |-> [op |-> "set_zones", zones |-> DbGetAvailableZones(db),
                             at |-> now]]]
    /\ UNCHANGED <<db, redis, redisUp, now, fc, st, adm, nAdmin, lastUpd, storeUp, pend, config>>

(* zones_cache.get_zones() *)
ZonesCacheGet(i) ==
    /\ resp' = [resp EXCEPT ![i] =
                  [op |-> "get_zones", ret |-> GetZones(zonesCache[i], now),
                   hash |-> zonesCache[i].hash, last |-> LastWrite(resp[i])]]
    /\ UNCHANGED <<db, redis, redisUp, now, fc, st, adm, nAdmin, lastUpd,
                   zonesCache, storeUp, pend, config>>

(* zones_cache.invalidate() *)
ZonesCacheInvalidate(i) ==
    /\ zonesCache' = [zonesCache EXCEPT ![i] = ZonesInvalidate(@)]
    /\ resp' = [resp EXCEPT ![i] =
                  [op |-> "invalidate", last |-> [op |-> "invalidate"]]]
    /\ UNCHANGED <<db, redis, redisUp, now, fc, st, adm, nAdmin, lastUpd, storeUp, pend, config>>

ZoneNext ==
    \/ Tick
    \/ \E i \in Serving :
         \/ ZonesCacheSet(i)
         \/ ZonesCacheGet(i)
         \/ ZonesCacheInvalidate(i)
    \/ \E z \in CliNewZones, f \in CliFares : CliAddZone(z, f)
    \/ \E p \in UpdatePairs, f \in UpdateFares : CliUpdateRule(p[1], p[2], f)

ZoneSpec == ZoneInit /\ [][ZoneNext]_vars

(* C21: get_zones returns the cached zone set exactly when the last write on
   the object was a set_zones (not an invalidate, and not none at all) made
   less than the ttl ago, and then the zones that set_zones stored; in every
   other state it returns None. *)
C21_ZoneSetValidity ==
    [][\A i \in Serving :
          ZonesCacheGet(i) =>
              LET h == LastWrite(resp[i])
              IN  resp'[i].ret =
                      IF h.op = "set_zones" /\ now - h.at < ZonesTTL
                      THEN Some(h.zones) ELSE None]_vars

(* a get_zones made when the age of the stored set has reached the ttl *)
C21_Witness ==
    \E i \in Serving :
        /\ resp[i].op = "get_zones"
        /\ resp[i].last.op = "set_zones"
        /\ now - resp[i].last.at >= ZonesTTL
        /\ resp[i].ret = None

(* the content of the rule table: its rules as a set, whatever the row order *)
RuleContent(rows) == {DbAllFareRulesItems(rows)[k] : k \in 1..Len(rows)}

(* C30: the fingerprint set_zones stores is the same for two rule tables
   exactly when they have the same content, whatever the order of their rows,
   and get_zones never returns a zone set whose stored fingerprint differs
   from the fingerprint of the rule table as it is at the time of the call. *)
C30_FingerprintInvariant ==
    [][\A i \in Serving :
          /\ ZonesCacheSet(i) =>
                \A t \in ZoneTables :
                    (RuleContent(t) = RuleContent(db))
                        <=> (zonesCache'[i].hash = Some(RulesHash(DbAllFareRulesItems(t))))
          /\ ZonesCacheGet(i) =>
                (resp'[i].ret # None
                    => zonesCache[i].hash = Some(RulesHash(DbAllFareRulesItems(db))))]_vars

----------------------------------------------------------------------------
(* The rule store under sequences of administrative operations: the two
   handlers of the API, each run from its request to its reply, and the
   commands of manage_db.py. *)

StorePairs == {<<1, 2>>, <<2, 1>>}
StoreFares == {12344, 55000, 0}

(* zone number and fares_to_existing_zones of the add-zone requests: every
   zone given a fare, every zone given a negative fare, the self fare only
   and zero *)
StoreAddZoneRequests(rows) ==
    { <<MaxZone, FaresDict(FALSE, ZoneSet(rows) \cup {MaxZone}, 25000)>>,
      <<MaxZone, FaresDict(FALSE, ZoneSet(rows) \cup {MaxZone}, -5000)>>,
      <<MaxZone, FaresDict(FALSE, {MaxZone}, 0)>> }

(* the fare typed in for every zone at the prompts of manage_db.py add_zone *)
StoreCliFares == {25000, -5000}

(* PUT /api/fare-rules: the Body constraints (422), the zone check (400),
   db_manager.update_fare_rule and settings.reload_fare_rules *)
UpdateFareRuleCall(i, a, b, fare) ==
    /\ adm[i].op = "idle"
    /\ nAdmin < MaxStoreOps
    /\ IF ~(a >= 1 /\ b >= 1 /\ fare > 0)
       THEN /\ resp' = [resp EXCEPT ![i] =
                          [op |-> "update_fare_rule",
                           args |-> [a |-> a, b |-> b, fare |-> fare],
                           status |-> "unprocessable"]]
            /\ UNCHANGED <<db, st, nAdmin>>
       ELSE IF ~SettingsIsValidZone(db, a) \/ ~SettingsIsValidZone(db, b)
       THEN /\ st' = [st EXCEPT ![i] = SettingsGetAvailableZones(@, db)]
            /\ resp' = [resp EXCEPT ![i] =
                          [op |-> "update_fare_rule",
                           args |-> [a |-> a, b |-> b, fare |-> fare],
                           status |-> "rejected"]]
            /\ UNCHANGED <<db, nAdmin>>
       ELSE /\ db' = DbUpdateFareRule(db, a, b, fare)
            /\ st' = [st EXCEPT ![i] = ReloadFareRules(@, db')]
            /\ nAdmin' = nAdmin + 1
            /\ resp' = [resp EXCEPT ![i] =
                          [op |-> "update_fare_rule",
                           args |-> [a |-> a, b |-> b, fare |-> fare],
                           status |-> "completed", prior |-> DbGetFare(db, a, b)]]
    /\ UNCHANGED <<redis, redisUp, now, fc, adm, lastUpd, zonesCache, storeUp, pend, config>>

(* POST /api/zones: the Body constraint on zone_number (422), the two checks
   of the handler (400), db_manager.add_zone and settings.reload_fare_rules *)
AddNewZoneCall(i, z, fares) ==
    /\ adm[i].op = "idle"
    /\ nAdmin < MaxStoreOps
    /\ IF ~(z >= 1)
       THEN /\ resp' = [resp EXCEPT ![i] =
                          [op |-> "add_new_zone", args |-> [z |-> z, fares |-> fares],
                           status |-> "unprocessable"]]
            /\ UNCHANGED <<db, st, nAdmin>>
       ELSE IF DbIsValidZone(db, z) \/ fares.str_keys \/ ~DictHasKey(fares.items, z)
       THEN /\ resp' = [resp EXCEPT ![i] =
                          [op |-> "add_new_zone", args |-> [z |-> z, fares |-> fares],
                           status |-> "rejected"]]
            /\ UNCHANGED <<db, st, nAdmin>>
       ELSE /\ db' = DbAddZone(db, z, fares.items)
            /\ st' = [st EXCEPT ![i] = ReloadFareRules(@, db')]
            /\ nAdmin' = nAdmin + 1
            /\ resp' = [resp EXCEPT ![i] =
                          [op |-> "add_new_zone", args |-> [z |-> z, fares |-> fares],
                           status |-> "completed"]]
    /\ UNCHANGED <<redis, redisUp, now, fc, adm, lastUpd, zonesCache, storeUp, pend, config>>

StoreNext ==
    \/ \E i \in Serving :
         \/ \E p \in StorePairs, f \in StoreFares : UpdateFareRuleCall(i, p[1], p[2], f)
         \/ \E r \in StoreAddZoneRequests(db) : AddNewZoneCall(i, r[1], r[2])
    \/ \E z \in CliNewZones, f \in StoreCliFares : CliAddZone(z, f)
    \/ \E p \in StorePairs, f \in StoreFares : CliUpdateRule(p[1], p[2], f)

StoreSpec == Init /\ [][StoreNext]_vars

(* C23: in every state of the rule store, get_fare(a, b) and get_fare(b, a)
   return the same for all a and b, and get_fare(a, b) is None only when the
   table has no row for the pair in either ordering. *)
C23_LookupDirectionIndependent ==
    \A a \in 0..MaxZone, b \in 0..MaxZone :
        /\ DbGetFare(db, a, b) = DbGetFare(db, b, a)
        /\ DbGetFare(db, a, b) = None
              => (FindRow(db, a, b) = 0 /\ FindRow(db, b, a) = 0)

(* C24: in every state of the rule table there is at most one row per
   unordered zone pair: two rows never have the same normalized pair. *)
C24_UniqueUnorderedPair ==
    \A j \in 1..Len(db), k \in 1..Len(db) :
        MakeKey(db[j].from_zone, db[j].to_zone) = MakeKey(db[k].from_zone, db[k].to_zone)
            => j = k

(* C25: when update_fare_rule(a, b, f) has committed, get_fare(a, b) returns
   f, whether the pair had a rule before or not and whatever updates were
   made before; an update back to the fare the pair had before gives that
   fare again. *)
C25_UpsertReadYourWrite ==
    [][\A i \in Serving, p \in StorePairs, f \in StoreFares :
          /\ (UpdateFareRuleCall(i, p[1], p[2], f) /\ resp'[i].status = "completed")
                => DbGetFare(db', p[1], p[2]) = Some(f)
          /\ CliUpdateRule(p[1], p[2], f)
                => DbGetFare(db', p[1], p[2]) = Some(f)]_vars

(* a second update of a pair, back to the fare of the default rules *)
C25_Witness ==
    \E i \in Serving :
        /\ resp[i].op = "update_fare_rule" /\ resp[i].status = "completed"
        /\ resp[i].prior = Some(12344)
        /\ resp[i].args.fare = 55000
        /\ DbGetFare(db, resp[i].args.a, resp[i].args.b) = Some(55000)

(* C27: every fare in the rule table is strictly positive in every state. *)
C27_PositiveFares ==
    \A k \in 1..Len(db) : db[k].fare > 0

----------------------------------------------------------------------------
(* Zone validation and fare resolution while the rule store may be out of
   reach: get_db_manager() or the query it is used for raises. *)

(* Settings.is_valid_zone: any exception is caught and answered False *)
IsValidZoneGuarded(rows, z, reachable) ==
    IF reachable
    THEN [raised |-> FALSE, ret |-> DbIsValidZone(rows, z)]
    ELSE [raised |-> FALSE, ret |-> FALSE]

(* get_fare_cache when the warm-up raises: the exception is caught and the
   singleton stays as constructed *)
GetFareCacheUnwarmed(w, up) ==
    IF w.c.inited THEN w
    ELSE [w EXCEPT !.c = [NoCache EXCEPT !.inited = TRUE, !.client = up]]

(* get_fare_with_cache from the result r of get_fare_cached on, when
   get_db_manager().get_fare raises: a hit is returned, a miss ends in the
   exception, which Settings.get_fare (it catches ImportError only) lets
   through *)
CacheMissRaises(r) ==
    IF r.ret # None
    THEN [w |-> r.w, ret |-> r.ret, raised |-> FALSE]
    ELSE [w |-> r.w, ret |-> None, raised |-> TRUE]

Answered(r) == [w |-> r.w, ret |-> Some(r.ret), raised |-> FALSE]

(* Settings.get_fare with the rule store reachable or not *)
SettingsGetFare(w, a, b, rows, now_, up, reachable) ==
    IF reachable
    THEN Answered(GetFareWithCache(w, a, b, rows, now_, up))
    ELSE CacheMissRaises(GetFareCached(GetFareCacheUnwarmed(w, up), a, b, now_, up))

OutageZones == {1, MaxZone + 1}

StoreToggle ==
    /\ storeUp' = ~storeUp
    /\ UNCHANGED <<db, redis, redisUp, now, fc, st, adm, resp, nAdmin, lastUpd,
                   zonesCache, pend, config>>

(* settings.is_valid_zone(z) *)
IsValidZoneCall(i, z) ==
    /\ adm[i].op = "idle"
    /\ resp' = [resp EXCEPT ![i] =
                  [op |-> "is_valid_zone", z |-> z, reachable |-> storeUp,
                   raised |-> IsValidZoneGuarded(db, z, storeUp).raised,
                   ret |-> IsValidZoneGuarded(db, z, storeUp).ret]]
    /\ UNCHANGED <<db, redis, redisUp, now, fc, st, adm, nAdmin, lastUpd,
                   zonesCache, storeUp, pend, config>>

(* what a settings.get_fare(a, b) that returned r leaves behind; held are the
   values the cache levels held for the pair when the call began *)
GetFareOutcome(i, a, b, r, held) ==
    /\ fc' = [fc EXCEPT ![i] = r.w.c]
    /\ redis' = r.w.redis
    /\ resp' = [resp EXCEPT ![i] =
                  [op |-> "settings_get_fare", a |-> a, b |-> b,
                   reachable |-> storeUp, raised |-> r.raised, ret |-> r.ret,
                   held |-> held, log |-> r.w.log]]

(* settings.get_fare(a, b) *)
SettingsGetFareCall(i, a, b) ==
    /\ adm[i].op = "idle"
    /\ GetFareOutcome(i, a, b,
                      SettingsGetFare(World(i), a, b, db, now, redisUp, storeUp),
                      HeldValues(World(i), a, b))
    /\ UNCHANGED <<db, redisUp, now, st, adm, nAdmin, lastUpd, zonesCache, storeUp, pend, config>>

(* the rules Settings.get_fare_rules falls back to *)
FallbackFareRules ==
    (<<1, 1>> :> 40000) @@ (<<1, 2>> :> 55000) @@ (<<1, 3>> :> 65000)
        @@ (<<2, 2>> :> 35000) @@ (<<2, 3>> :> 45000) @@ (<<3, 3>> :> 30000)

(* Settings.get_fare_rules: with _fare_rules_cache None the rule table is
   read, and when that raises the fallback is stored in its place *)
GetFareRulesGuarded(s, rows, reachable) ==
    IF s.frc # None THEN s
    ELSE IF reachable THEN [s EXCEPT !.frc = Some(DbGetAllFareRules(rows))]
    ELSE [s EXCEPT !.frc = Some(FallbackFareRules)]

(* Settings.get_available_zones: with _zones_cache None the zones are read,
   and when that raises the empty list is stored in their place *)
GetAvailableZonesGuarded(s, rows, reachable) ==
    IF s.zc # None THEN s
    ELSE IF reachable THEN [s EXCEPT !.zc = Some(DbGetAvailableZones(rows))]
    ELSE [s EXCEPT !.zc = Some(<<>>)]

(* settings.get_fare_rules() *)
GetFareRulesCall(i) ==
    /\ adm[i].op = "idle"
    /\ st' = [st EXCEPT ![i] = GetFareRulesGuarded(st[i], db, storeUp)]
    /\ resp' = [resp EXCEPT ![i] =
                  [op |-> "settings_get_fare_rules", reachable |-> storeUp,
                   ret |-> GetFareRulesGuarded(st[i], db, storeUp).frc[1]]]
    /\ UNCHANGED <<db, redis, redisUp, now, fc, adm, nAdmin, lastUpd,
                   zonesCache, storeUp, pend, config>>

(* settings.get_available_zones() *)
GetAvailableZonesCall(i) ==
    /\ adm[i].op = "idle"
    /\ st' = [st EXCEPT ![i] = GetAvailableZonesGuarded(st[i], db, storeUp)]
    /\ resp' = [resp EXCEPT ![i] =
                  [op |-> "settings_get_available_zones", reachable |-> storeUp,
                   ret |-> GetAvailableZonesGuarded(st[i], db, storeUp).zc[1]]]
    /\ UNCHANGED <<db, redis, redisUp, now, fc, adm, nAdmin, lastUpd,
                   zonesCache, storeUp, pend, config>>

(* the rule table as initialised, or with a rule added by an earlier run *)
OutageInit ==
    /\ db \in RuleTables
    /\ redis = EmptyDict
    /\ redisUp \in BOOLEAN
    /\ now = 0
    /\ fc = [i \in Inst |-> NoCache]
    /\ st = [i \in Inst |-> NoSettings]
    /\ adm = [i \in Inst |-> Idle]
    /\ resp = [i \in Inst |-> [op |-> "none"]]
    /\ nAdmin = 0
    /\ lastUpd = [i \in Inst |-> None]
    /\ zonesCache = [i \in Inst |-> NoZonesCache]
    /\ storeUp = TRUE
    /\ pend = [i \in Inst |-> None]
    /\ config = "20"

OutageNext ==
    \/ Tick
    \/ RedisToggle
    \/ StoreToggle
    \/ \E i \in Serving :
         \/ \E z \in OutageZones : IsValidZoneCall(i, z)
         \/ \E p \in CachePairs : SettingsGetFareCall(i, p[1], p[2])
         \/ GetFareRulesCall(i)
         \/ GetAvailableZonesCall(i)

OutageSpec == OutageInit /\ [][OutageNext]_vars

(* C29: a zone validation made while the rule store is out of reach ends in
   a failure, never in a verdict on the zone; a fare resolution made while it
   is out of reach ends in a failure unless a cache level held a fare for the
   pair, and then returns a fare that was held, never 0 or a default. *)
C29_StoreUnavailableSurfaced ==
    \A i \in Inst :
        /\ (resp[i].op = "is_valid_zone" /\ ~resp[i].reachable) => resp[i].raised
        /\ (resp[i].op = "settings_get_fare" /\ ~resp[i].reachable) =>
              /\ resp[i].held = {} => resp[i].raised
              /\ ~resp[i].raised => resp[i].ret[1] \in resp[i].held

(* C31: the first fare resolution of a process constructs the singleton
   cache and, with the rule store in reach, loads every rule of the table
   into the in-memory level before the lookup, which the in-memory level
   then answers without a read of the rule store; a resolution that finds
   the singleton constructed loads nothing; with the rule store out of
   reach the first resolution still leaves a constructed, empty cache, and
   a later resolution with the store in reach is answered through it. *)
C31_WarmUpOnFirstAcquisition ==
    [][\A i \in Serving, p \in CachePairs :
         SettingsGetFareCall(i, p[1], p[2]) =>
           LET key == MakeKey(p[1], p[2])
           IN  /\ fc'[i].inited
               /\ (~fc[i].inited /\ storeUp) =>
                     /\ \A k \in 1..Len(db) :
                          LET rk == MakeKey(db[k].from_zone, db[k].to_zone)
                          IN  /\ rk \in DOMAIN fc'[i].mem
                              /\ fc'[i].ts[rk] = now
                              /\ \E m \in 1..Len(db) :
                                   /\ MakeKey(db[m].from_zone, db[m].to_zone) = rk
                                   /\ fc'[i].mem[rk] = db[m].fare
                     /\ resp'[i].log[1].reads = <<"memory">>
               /\ (~fc[i].inited /\ ~storeUp) =>
                     /\ fc'[i].mem = EmptyDict
                     /\ fc'[i].client = redisUp
               /\ fc[i].inited =>
                     /\ fc'[i].client = fc[i].client
                     /\ \A k \in DOMAIN fc'[i].mem :
                          k # key => /\ k \in DOMAIN fc[i].mem
                                     /\ fc'[i].mem[k] = fc[i].mem[k]
                                     /\ fc'[i].ts[k] = fc[i].ts[k]
               /\ storeUp => ~resp'[i].raised]_vars

(* the one lookup made so far was answered by the warmed in-memory level,
   and a lookup through a cache whose warm-up had failed was answered *)
C31_Witness ==
    \E i \in Serving :
        /\ resp[i].op = "settings_get_fare" /\ ~resp[i].raised
        /\ Cardinality(DOMAIN fc[i].lru) = 1
        /\ resp[i].log[1].reads = <<"memory">>
        /\ \A k \in 1..Len(db) :
             MakeKey(db[k].from_zone, db[k].to_zone) \in DOMAIN fc[i].mem

C31_WitnessAbsorbed ==
    \E i \in Serving :
        /\ resp[i].op = "settings_get_fare" /\ resp[i].reachable
        /\ resp[i].log[1].src = "db"
        /\ Cardinality(DOMAIN fc[i].mem) = 1

(* C36: a Settings.get_available_zones() or Settings.get_fare_rules() made
   with the rule store in reach returns the zones and the rules the store
   holds, whether or not an earlier call was made while it was out of
   reach. *)
C36_RecoveryAfterOutage ==
    \A i \in Inst :
        /\ (resp[i].op = "settings_get_available_zones" /\ resp[i].reachable)
              => resp[i].ret = DbGetAvailableZones(db)
        /\ (resp[i].op = "settings_get_fare_rules" /\ resp[i].reachable)
              => resp[i].ret = DbGetAllFareRules(db)

(* the zones half and the rules half, each alone *)
C36_ZonesRecovered ==
    \A i \in Inst :
        (resp[i].op = "settings_get_available_zones" /\ resp[i].reachable)
           => resp[i].ret = DbGetAvailableZones(db)

C36_RulesRecovered ==
    \A i \in Inst :
        (resp[i].op = "settings_get_fare_rules" /\ resp[i].reachable)
           => resp[i].ret = DbGetAllFareRules(db)

(* C34: when the last call of a process was a fare resolution of (a, b)
   that missed both cache levels, read the rule store and stored the fare,
   and the entry it stored is still within its TTL, the next resolution of
   (a, b) by that process is answered by the in-memory level and reads the
   rule store not at all. *)
C34_BackfillServedFromCache ==
    [][\A i \in Serving, p \in CachePairs :
         LET key == MakeKey(p[1], p[2])
         IN  ( /\ resp[i].op = "get_fare"
               /\ resp[i].a = p[1] /\ resp[i].b = p[2]
               /\ resp[i].log[1].src = "db"
               /\ key \in DOMAIN fc[i].mem
               /\ IsMemoryCacheValid(fc[i], key, now)
               /\ GetFare(i, p[1], p[2]) )
             => /\ resp'[i].log[1].src = "memory"
                /\ resp'[i].log[1].reads = <<"memory">>]_vars

----------------------------------------------------------------------------
(* The configured batch limit: the row max_journeys_per_day of system_config,
   written as "20" when the database is initialised and held as a string. *)

(* values the row may hold *)
ConfigValues == {"10", "20", "30"}

(* int(value) *)
IntOf(value) ==
    CASE value = "10" -> 10
      [] value = "20" -> 20
      [] value = "30" -> 30

(* db_manager.get_config_value("max_journeys_per_day") *)
DbGetConfigValue(value) == Some(value)

(* the max_journeys_per_day of GET /api/fare-rules *)
ReportedLimit(max_journeys) ==
    IF max_journeys # None /\ max_journeys[1] # ""
    THEN IntOf(max_journeys[1]) ELSE MAX_JOURNEYS_PER_DAY

(* GET /api/fare-rules *)
GetFareRulesListing(i) ==
    /\ adm[i].op = "idle"
    /\ resp' = [resp EXCEPT ![i] =
                  [op |-> "get_fare_rules",
                   rules |-> DbGetAllFareRules(db),
                   max_journeys_per_day |-> ReportedLimit(DbGetConfigValue(config)),
                   available_zones |-> DbGetAvailableZones(db)]]
    /\ UNCHANGED <<db, redis, redisUp, now, fc, st, adm, nAdmin, lastUpd,
                   zonesCache, storeUp, pend, config>>

ConfigInit ==
    /\ db = default_rules
    /\ redis = EmptyDict
    /\ redisUp \in BOOLEAN
    /\ now = 0
    /\ fc = [i \in Inst |-> NoCache]
    /\ st = [i \in Inst |-> NoSettings]
    /\ adm = [i \in Inst |-> Idle]
    /\ resp = [i \in Inst |-> [op |-> "none"]]
    /\ nAdmin = 0
    /\ lastUpd = [i \in Inst |-> None]
    /\ zonesCache = [i \in Inst |-> NoZonesCache]
    /\ storeUp = TRUE
    /\ pend = [i \in Inst |-> None]
    /\ config \in ConfigValues

ConfigNext ==
    \/ Tick
    \/ RedisToggle
    \/ \E i \in Serving :
         \/ \E journeys \in Batches : CalculateFares(i, journeys)
         \/ GetFareRulesListing(i)

ConfigSpec == ConfigInit /\ [][ConfigNext]_vars

(* C35: whatever value of max_journeys_per_day the configuration store
   holds, a non-empty batch of journeys between registered zones is accepted
   exactly when its length is at most that value, and the fare-rules listing
   reports that value. *)
C35_ConfiguredBatchLimit ==
    \A i \in Inst :
        /\ ( /\ resp[i].op = "calculate_fares"
              /\ Len(resp[i].request) >= MinItems
              /\ \A k \in 1..Len(resp[i].request) :
                   JourneyValid(resp[i].request[k], db) )
              => (resp[i].status = 200 <=> Len(resp[i].request) <= IntOf(config))
        /\ resp[i].op = "get_fare_rules"
              => resp[i].max_journeys_per_day = IntOf(config)

(* the same with the store holding the value written at initialisation *)
C35_LimitAsInitialised ==
    config = "20" => C35_ConfiguredBatchLimit

(* the listing reports the value held *)
C35_ReportedIsConfigured ==
    \A i \in Inst :
        resp[i].op = "get_fare_rules"
           => resp[i].max_journeys_per_day = IntOf(config)

----------------------------------------------------------------------------
(* Frame of the administrative handlers *)

(* rows differs from old in the row of the exact pair (a, b) at most: its
   fare, or the row itself appended when old held none *)
OnlyRuleChanged(old, rows, a, b, fare) ==
    /\ Len(rows) = IF FindRow(old, a, b) # 0 THEN Len(old) ELSE Len(old) + 1
    /\ \A k \in 1..Len(old) :
         IF k = FindRow(old, a, b)
         THEN rows[k] = [old[k] EXCEPT !.fare = fare]
         ELSE rows[k] = old[k]
    /\ FindRow(old, a, b) = 0 => rows[Len(rows)] = Row(a, b, fare)

(* the zone check of PUT /api/fare-rules fails *)
UpdateRejected(rows, a, b) == ~DbIsValidZone(rows, a) \/ ~DbIsValidZone(rows, b)

(* the steps of one PUT /api/fare-rules leave the rule table, the fare cache
   levels and the cached rules of Settings as required; zc_ok says what the
   rejection may do to the cached zone list *)
UpdateFrame(i, a, b, fare, zc_ok) ==
    /\ UpdateFareRuleStart(i, a, b, fare) =>
          /\ db' = db /\ fc' = fc /\ redis' = redis /\ zonesCache' = zonesCache
          /\ UpdateRejected(db, a, b) =>
                /\ adm' = adm
                /\ resp'[i].op = "update_fare_rule" /\ resp'[i].status = "rejected"
                /\ st'[i].frc = st[i].frc
                /\ zc_ok
    /\ ( /\ adm[i].op = "update_fare_rule"
          /\ adm[i].args = [a |-> a, b |-> b, fare |-> fare]
          /\ AdminCommit(i) ) =>
          /\ ZoneSet(db') = ZoneSet(db)
          /\ OnlyRuleChanged(db, db', a, b, fare)
    /\ (adm[i].op = "update_fare_rule" /\ AdminReload(i)) => db' = db

(* C37 as stated: PUT /api/fare-rules never changes the set of registered
   zones; when a zone is not registered the request is rejected and the rule
   table and every cache, the cached zone list of Settings included, are as
   before; when both are registered the rule of that pair alone changes. *)
C37_UpdateFrame_AllCaches ==
    [][\A i \in Serving, p \in UpdatePairs, f \in UpdateFares :
         UpdateFrame(i, p[1], p[2], f, st'[i].zc = st[i].zc)]_vars

(* C37, amended: the same, but the rejection may fill a cached zone list of
   Settings that was not loaded yet with the zones of the rule store; a
   list already loaded is left as it is. *)
C37_UpdateFrame ==
    [][\A i \in Serving, p \in UpdatePairs, f \in UpdateFares :
         UpdateFrame(i, p[1], p[2], f,
                     \/ st'[i].zc = st[i].zc
                     \/ /\ st[i].zc = None
                        /\ st'[i].zc = Some(DbGetAvailableZones(db)))]_vars

(* a rejected update in a process whose fare cache is loaded *)
C37_Witness ==
    \E i \in Serving :
        /\ resp[i].op = "update_fare_rule" /\ resp[i].status = "rejected"
        /\ fc[i].mem # EmptyDict
        /\ st[i].zc = Some(DbGetAvailableZones(db))

(* an update of a pair of registered zones, committed *)
C37_WitnessCommitted ==
    \E i \in Serving :
        /\ adm[i].op = "update_fare_rule" /\ adm[i].committed
        /\ fc[i].mem # EmptyDict
        /\ ZoneSet(db) = ZoneSet(default_rules)
        /\ db # default_rules

(* rows is old followed by one row (z, key, fare) per item of the dict, in
   the dict's order *)
RulesAppended(old, rows, z, items) ==
    /\ Len(rows) = Len(old) + Len(items)
    /\ \A k \in 1..Len(old) : rows[k] = old[k]
    /\ \A n \in 1..Len(items) :
         rows[Len(old) + n] = Row(z, items[n][1], items[n][2])

(* C38: POST /api/zones with a zone number that exists, or with a dict of
   fares that has no entry for the new zone itself, is rejected and leaves
   the rule table and every cache as they were; the commit of an accepted
   request appends one rule (new zone, given zone, given fare) per entry of
   the dict and leaves every rule the table held as it was. *)
C38_AddZoneFrame ==
    [][\A i \in Serving :
         /\ \A rq \in AddZoneRequests(db) :
              AddNewZoneStart(i, rq[1], rq[2]) =>
                /\ db' = db /\ fc' = fc /\ redis' = redis
                /\ st' = st /\ zonesCache' = zonesCache
                /\ (DbIsValidZone(db, rq[1]) \/ ~DictHasKey(rq[2].items, rq[1])) =>
                      /\ adm' = adm
                      /\ resp'[i].op = "add_new_zone"
                      /\ resp'[i].status = "rejected"
         /\ (adm[i].op = "add_new_zone" /\ AdminCommit(i)) =>
              RulesAppended(db, db', adm[i].args.z, adm[i].args.fares.items)
         /\ (adm[i].op = "add_new_zone" /\ AdminReload(i)) => db' = db]_vars

(* an added zone with a fare to every zone, committed, in a process whose
   fare cache is loaded *)
C38_Witness ==
    \E i \in Serving :
        /\ adm[i].op = "add_new_zone" /\ adm[i].committed
        /\ Len(adm[i].args.fares.items) > 1
        /\ Len(db) = Len(default_rules) + Len(adm[i].args.fares.items)
        /\ fc[i].mem # EmptyDict

(* a request without the self fare, rejected *)
C38_WitnessRejected ==
    \E i \in Serving :
        /\ resp[i].op = "add_new_zone" /\ resp[i].status = "rejected"
        /\ ~resp[i].args.fares.str_keys
        /\ ~DbIsValidZone(db, resp[i].args.z)
        /\ fc[i].mem # EmptyDict

----------------------------------------------------------------------------
(* Two server processes on one rule store and one Redis.  Each has its own
   FareRulesCache and Settings.  A handler runs to completion within its
   process, but the statements of get_fare_with_cache in one process
   interleave with the handlers of the other: pend[i] holds the resolution
   of process i that has read the rule store and not yet called
   set_fare_cache. *)

(* the process that serves the administrative requests *)
Updaters == {1}
TwoUpdatePairs == {<<1, 2>>}

(* every administrative request so far has returned *)
Settled == nAdmin >= 1 /\ \A i \in Inst : adm[i].op = "idle"

(* neither the in-memory level of process i nor Redis holds an entry for
   the pair that is younger than the TTL *)
Aged(i, a, b) ==
    /\ ~IsMemoryCacheValid(fc[i], MakeKey(a, b), now)
    /\ RedisGet(redis, MakeKey(a, b), now) = None

(* get_fare_with_cache up to and with db_manager.get_fare: r is the result
   of get_fare_cached; a hit returns, a miss reads the rule store *)
ResolveBeginOutcome(i, a, b, r, settled, aged) ==
    /\ fc' = [fc EXCEPT ![i] = r.w.c]
    /\ redis' = r.w.redis
    /\ IF r.ret # None
       THEN /\ resp' = [resp EXCEPT ![i] =
                          [op |-> "get_fare", a |-> a, b |-> b, ret |-> r.ret[1],
                           src |-> r.src, rule |-> DbGetFare(db, a, b),
                           settled |-> settled, aged |-> aged]]
            /\ pend' = pend
       ELSE /\ pend' = [pend EXCEPT ![i] =
                          Some([a |-> a, b |-> b, fare |-> DbGetFare(db, a, b),
                                src |-> r.src, reads |-> r.reads,
                                settled |-> settled, aged |-> aged])]
            /\ resp' = resp

ResolveBegin(i, a, b) ==
    /\ adm[i].op = "idle"
    /\ pend[i] = None
    /\ ResolveBeginOutcome(i, a, b,
                           GetFareCached(GetFareCache(World(i), db, now, redisUp),
                                         a, b, now, redisUp),
                           Settled, Aged(i, a, b))
    /\ UNCHANGED <<db, redisUp, now, st, adm, nAdmin, lastUpd, zonesCache,
                   storeUp, config>>

(* the rest of get_fare_with_cache: set_fare_cache of the fare read, return *)
ResolveEndOutcome(i, q, out) ==
    /\ fc' = [fc EXCEPT ![i] = out.w.c]
    /\ redis' = out.w.redis
    /\ resp' = [resp EXCEPT ![i] =
                  [op |-> "get_fare", a |-> q.a, b |-> q.b, ret |-> out.ret,
                   src |-> IF q.fare # None THEN "db" ELSE "none",
                   rule |-> DbGetFare(db, q.a, q.b),
                   settled |-> q.settled, aged |-> q.aged]]
    /\ pend' = [pend EXCEPT ![i] = None]

ResolveEnd(i) ==
    /\ pend[i] # None
    /\ ResolveEndOutcome(i, pend[i][1],
                         CacheMissFallback([w |-> World(i), ret |-> None,
                                            src |-> pend[i][1].src,
                                            reads |-> pend[i][1].reads],
                                           pend[i][1].a, pend[i][1].b,
                                           pend[i][1].fare, now, redisUp))
    /\ UNCHANGED <<db, redisUp, now, st, adm, nAdmin, lastUpd, zonesCache,
                   storeUp, config>>

TwoNext ==
    \/ Tick
    \/ \E i \in Inst :
         \/ \E p \in CachePairs : ResolveBegin(i, p[1], p[2])
         \/ ResolveEnd(i)
    \/ \E i \in Updaters :
         \/ \E p \in TwoUpdatePairs, f \in UpdateFares :
              pend[i] = None /\ UpdateFareRuleStart(i, p[1], p[2], f)
         \/ AdminCommit(i)
         \/ AdminReload(i)

TwoSpec == Init /\ [][TwoNext]_vars

(* C32: a fare resolution that begins once every update has returned never
   returns a fare other than the rule store's, whatever resolutions and
   updates of the two processes were interleaved before. *)
C32_NoStaleBackfill ==
    \A i \in Inst :
        (resp[i].op = "get_fare" /\ resp[i].settled)
           => Some(resp[i].ret) = resp[i].rule

(* a resolution that read the rule store before the commit of an update and
   stored and returned that fare after the update had returned *)
C32_RaceReached ==
    \E i \in Inst :
        /\ resp[i].op = "get_fare" /\ resp[i].src = "db"
        /\ ~resp[i].settled /\ Settled
        /\ Some(resp[i].ret) # resp[i].rule
        /\ fc[i].mem[MakeKey(resp[i].a, resp[i].b)] = resp[i].ret

(* C33: a fare resolution by either process that begins once the update has
   returned, when neither its in-memory level nor the shared cache holds an
   entry for the pair younger than the TTL, returns the rule store's
   fare. *)
C33_BoundedStaleness ==
    \A i \in Inst :
        (resp[i].op = "get_fare" /\ resp[i].settled /\ resp[i].aged)
           => Some(resp[i].ret) = resp[i].rule
====
